---- MODULE Spec2Model ----
(***************************************************************************)
(* Runtime validator of kwality (engines/runtime-validator).               *)
(*                                                                         *)
(* Two entry points are modelled:                                          *)
(*   - ValidationOrchestrator (validation.rs): start_validation spawns a   *)
(*     background task running execute_validation; cancel_validation and   *)
(*     the status queries run concurrently with it.  Specification Spec.   *)
(*   - RuntimeValidator::validate (lib.rs): one validation raced against   *)
(*     the global timer.  Specification SpecValidate.                      *)
(* Both use ContainerManager (container.rs) for the workspace and the      *)
(* container; SpecBoth runs the two side by side.  Two components are      *)
(* also driven on their own:                                               *)
(*   - ContainerManager, with create_execution_environment taken one I/O   *)
(*     call at a time.  Specification SpecContainer.                       *)
(*   - FuzzingEngine (fuzzing.rs), campaign after campaign on one engine.  *)
(*     Specification SpecFuzzing.                                          *)
(* Scores are exact decimals held in thousandths of a point.               *)
(***************************************************************************)
EXTENDS Integers, Sequences, FiniteSets, TLC

\* Number of validations the orchestrator starts (each gets a fresh uuid).
MaxValidations == 1

\* Length of the longest blocked_syscalls list a configuration carries.
MaxBlockedSyscalls == 16

\* Number of files in the largest codebase materialized.
MaxFiles == 2

\* Number of times a caller invokes cleanup_environment on one environment.
MaxCleanupCalls == 2

\* Largest iterations value a FuzzingEngine is configured with.
MaxIterations == 2

\* Number of distinct execution paths a fuzzed execution can report.
MaxPaths == 2

\* Number of fuzz_code calls made on one FuzzingEngine.
MaxFuzzRuns == 2

\* Number of files in the largest codebase whose command is detected.
MaxCodebaseFiles == 3

\* Number of files in the largest codebase the static scans go through.
MaxScannedFiles == 2

\* max_points of the TimeSeriesBuffer (1000 in MetricsCollector::new).
MaxPoints == 2

\* Number of points handed to one time series.
MaxRecords == 3

\* Number of violations, vulnerabilities and secrets, taken together, in the
\* largest set of findings scored.
MaxSecurityFindings == 4

\* Number of containers create_container is asked for.
MaxContainers == 2

\* Number of tasks calling MetricsCollector concurrently.
MaxCallers == 3

VARIABLES
    config,              \* RuntimeConfig, fixed at construction
    active_validations,  \* ValidationOrchestrator.active_validations
    pc,                  \* position of each background task in execute_validation
    pipeline_idx,        \* index of the for-loop of execute_pipeline
    validation_result,   \* the task's local ValidationResult
    pipeline_result,     \* the task's local pipeline_result
    execution_env,       \* the ExecutionEnvironment a run owns
    host_dirs,           \* workspace directories present on the host
    docker_containers,   \* containers present in the daemon
    metrics,             \* MetricsCollector counters
    container_events,    \* history: the container events each run recorded, in order
    cleanup_calls,       \* history: invocations of cleanup_environment per run
    remove_attempts,     \* history: remove_container RPCs issued by execute_code per run
    executed_phases,     \* history: phase bodies executed by execute_pipeline
    execution_outcome,   \* history: how the execute_code of a run's pipeline went
    phase_seconds,       \* history: seconds the phase body that just returned took
    rv_pc,               \* position of RuntimeValidator::validate
    rv_result,           \* its ValidationResult
    rv_execution,        \* outcome of Step 4 (execute_code) kept for Step 8
    rv_steps,            \* history: steps of execute_validation that ran
    cm_pc,               \* position of a direct caller of ContainerManager
    cm_last,             \* what the caller's last call returned
    cm_written,          \* history: files create_execution_environment wrote
    host_files,          \* files present in the caller's workspace
    fz_pc,               \* position of the caller of a FuzzingEngine
    fz_config,           \* FuzzingEngine.config
    coverage_map,        \* FuzzingEngine.coverage_tracker.coverage_map
    fz_i,                \* loop variable of fuzz_code
    fz_result,           \* the FuzzingResult of the current or last fuzz_code
    fz_runs,             \* history: fuzz_code calls that returned
    fz_executions,       \* history: executions of the current or last fuzz_code
    codebase,            \* Codebase.files of an execution: the paths, in order
    dx_pc,               \* position of that execution
    dx_command,          \* what detect_execution_command returned
    dx_execution,        \* the ExecutionResult of the command
    dx_result,           \* the ValidationResult the execution is analyzed into
    sc_pc,               \* position of a caller of the scoring of SecurityMonitor
    sc_violations,       \* the violations it scores
    sc_vulnerabilities,  \* the vulnerabilities it scores
    sc_secrets,          \* the secrets it scores
    sc_score,            \* what calculate_security_score returned
    sc_risk,             \* what determine_risk_level returned
    sn_pc,               \* position of a caller of the static scans of SecurityMonitor
    sn_files,            \* the files of the codebase it scans
    sn_i,                \* loop index of the scan in progress
    sn_matches,          \* history: the (file, pattern) matches scan_file came upon
    sn_vulnerabilities,  \* SecurityResult.vulnerabilities
    sn_secrets,          \* SecurityResult.secrets
    time_series_buffer,  \* MetricsCollector.time_series_buffer
    ts_recorded,         \* history: every point handed to each series, in order
    container_config,    \* ContainerManager.config
    cc_requests,         \* the Config each container of the daemon was created with
    cc_last,             \* what the last create_container returned
    gr_pc,               \* position of a caller of GrammarInputGenerator::generate_input
    gr_call,             \* the call of expand_symbol about to run: its symbol and depth
    gr_stack,            \* the calls of expand_symbol waiting for it, outermost first
    gr_capped,           \* history: what the calls entered beyond the depth cap returned
    op_pc,               \* the MetricsCollector operation each task is in, and its next step
    rw_locks,            \* the RwLocks of MetricsCollector: holders and waiters
    mutexes,             \* the Mutexes of MetricsCollector: the task holding each (0: none)
    validation_metrics,  \* MetricsCollector.validation_metrics, as the tasks update it
    vm_snapshot,         \* the clone of it get_metrics_summary took last
    mon_config,          \* SecurityMonitor.config of a monitor driven on its own
    mon_pc,              \* position of its caller
    mon_violations       \* SecurityResult.violations of its collect_results

vars == << config, active_validations, pc, pipeline_idx, validation_result,
           pipeline_result, execution_env, host_dirs, docker_containers,
           metrics, container_events, cleanup_calls, remove_attempts, executed_phases,
           execution_outcome, phase_seconds, rv_pc, rv_result, rv_execution, rv_steps,
           cm_pc, cm_last, cm_written, host_files,
           fz_pc, fz_config, coverage_map, fz_i, fz_result, fz_runs, fz_executions,
           codebase, dx_pc, dx_command, dx_execution, dx_result,
           sc_pc, sc_violations, sc_vulnerabilities, sc_secrets, sc_score, sc_risk,
           sn_pc, sn_files, sn_i, sn_matches, sn_vulnerabilities, sn_secrets,
           time_series_buffer, ts_recorded,
           container_config, cc_requests, cc_last,
           gr_pc, gr_call, gr_stack, gr_capped,
           op_pc, rw_locks, mutexes, validation_metrics, vm_snapshot,
           mon_config, mon_pc, mon_violations >>

orch_vars == << active_validations, pc, pipeline_idx, validation_result,
                pipeline_result, metrics, container_events, executed_phases,
                execution_outcome,
                phase_seconds >>

rv_vars == << rv_pc, rv_result, rv_execution, rv_steps >>

cm_vars == << cm_pc, cm_last, cm_written, host_files >>

fz_vars == << fz_pc, fz_config, coverage_map, fz_i, fz_result, fz_runs, fz_executions >>

dx_vars == << codebase, dx_pc, dx_command, dx_execution, dx_result >>

sc_vars == << sc_pc, sc_violations, sc_vulnerabilities, sc_secrets, sc_score, sc_risk >>

sn_vars == << sn_pc, sn_files, sn_i, sn_matches, sn_vulnerabilities, sn_secrets >>

ts_vars == << time_series_buffer, ts_recorded >>

cc_vars == << container_config, cc_requests, cc_last >>

\* The variables of the operations driven on their own under every configuration.
gr_vars == << gr_pc, gr_call, gr_stack, gr_capped >>

lk_vars == << op_pc, rw_locks, mutexes >>

vm_vars == << validation_metrics, vm_snapshot >>

mon_vars == << mon_config, mon_pc, mon_violations >>

side_vars == << cc_vars, gr_vars, lk_vars, vm_vars, mon_vars >>

\* The variables of the components driven on their own by given inputs.
unit_vars == << dx_vars, sc_vars, sn_vars, ts_vars, side_vars >>

\* The resources and their history, shared by every user of ContainerManager.
env_vars == << execution_env, host_dirs, docker_containers, cleanup_calls, remove_attempts >>

\* The variables of the validators, the container manager and the fuzzing engine.
program_vars == << config, orch_vars, rv_vars, cm_vars, fz_vars, env_vars >>

Ids == 1..MaxValidations

\* The environment id of the run of RuntimeValidator::validate.
RvId == MaxValidations + 1

\* The environment id of a direct caller of ContainerManager.
CmId == MaxValidations + 2

EnvIds == Ids \cup {RvId, CmId}

-----------------------------------------------------------------------------
(* Data types *)

ValidationStatus == {"Pending", "Running", "Completed", "Failed", "Timeout", "Cancelled"}

TerminalStatus == {"Completed", "Failed", "Timeout", "Cancelled"}

ValidationPhase == {"Initialization", "EnvironmentSetup", "StaticAnalysis",
                    "SecurityScanning", "RuntimeExecution", "PerformanceProfiling",
                    "FuzzTesting", "ResultAggregation", "Cleanup", "Completed"}

\* HashMap::insert and HashMap::remove on a map held as a function.
MapInsert(m, k, v) == [x \in DOMAIN m \cup {k} |-> IF x = k THEN v ELSE m[x]]

MapRemove(m, k) == [x \in DOMAIN m \ {k} |-> m[x]]

NoContainer == "None"

\* A Finding; confidence is held in tenths (0.9 is 9).
Finding(type, severity, title, confidence) ==
    [finding_type |-> type, severity |-> severity, title |-> title,
     confidence |-> confidence]

\* ValidationResult as both entry points construct it: status Running, no findings,
\* PerformanceMetrics::default(), SecurityResult::default() (security_score 0.0),
\* overall_score 0.0, no recommendations.  Scores are held in thousandths of a point.
NewValidationResult ==
    [status |-> "Running", findings |-> << >>, cpu_usage_percent |-> 0,
     memory_usage_mb |-> 0, security_score |-> 0, overall_score |-> 0,
     fuzzing_result |-> "None", recommendations |-> << >>,
     completed_at |-> "None", duration |-> "None"]

\* ValidationSession as start_validation constructs it.
NewSession ==
    [status |-> "Running",
     current_phase |-> "Initialization",
     completed_phases |-> << >>,
     overall_progress |-> 0]     \* in eighths: completed_phases.len() / 8.0

SeqContains(s, x) == \E i \in 1..Len(s) : s[i] = x

\* SecurityConfig::default(), with one blocked syscall and one sensitive file.
\* Blocked syscalls are named by their position in the configured list.
DefaultSecurityConfig ==
    [enable_syscall_monitoring |-> TRUE,
     enable_network_monitoring |-> TRUE,
     enable_file_monitoring |-> TRUE,
     blocked_syscalls |-> 1..1,
     allowed_networks |-> {"127.0.0.1"},
     sensitive_files |-> << "/etc/passwd" >>]

\* The security configurations: the default one, and one blocking
\* MaxBlockedSyscalls syscalls.
SecurityConfigs ==
    {DefaultSecurityConfig,
     [DefaultSecurityConfig EXCEPT !.blocked_syscalls = 1..MaxBlockedSyscalls]}

\* The configurations the validators are constructed with.
Configs ==
    [cleanup_after_validation : BOOLEAN,
     fuzzing_enabled : BOOLEAN,
     security : SecurityConfigs]

\* CPU readings collect_metrics may return (percent).
CpuSamples == {10, 95}

\* Memory readings collect_metrics may return (MB).
MemorySamples == {200, 2000}

\* stderr texts a program that exits non-zero may leave.
StderrSamples == {"", "segmentation fault"}

-----------------------------------------------------------------------------
(* SecurityMonitor *)

SecurityViolation(type, severity, risk, title) ==
    [violation_type |-> type, severity |-> severity, risk_level |-> risk, title |-> title]

\* SyscallMonitor::check_violations: one violation per blocked syscall.
CheckViolations(sec) ==
    [i \in 1..Cardinality(sec.blocked_syscalls) |->
        SecurityViolation("UnauthorizedSyscall", "High", "high", "Blocked syscall attempted")]

\* check_network_violations
CheckNetworkViolations(sec) ==
    IF "0.0.0.0" \notin sec.allowed_networks
    THEN << SecurityViolation("NetworkAccess", "Medium", "medium", "Unauthorized network access") >>
    ELSE << >>

\* check_file_access_violations: one violation per sensitive file.
CheckFileAccessViolations(sec) ==
    [i \in 1..Len(sec.sensitive_files) |->
        SecurityViolation("FileSystemAccess", "High", "high", "Sensitive file access")]

\* collect_security_violations
CollectSecurityViolations(sec) ==
    CheckViolations(sec)
    \o (IF sec.enable_network_monitoring THEN CheckNetworkViolations(sec) ELSE << >>)
    \o (IF sec.enable_file_monitoring THEN CheckFileAccessViolations(sec) ELSE << >>)

\* calculate_security_score, the match on violation.severity, in thousandths.
ViolationDeduction(violation) ==
    CASE violation.severity = "Critical" -> 25000
      [] violation.severity = "High" -> 15000
      [] violation.severity = "Medium" -> 8000
      [] violation.severity = "Low" -> 3000
      [] OTHER -> 1000

\* calculate_security_score: the loop over the violations.
RECURSIVE ViolationDeductions(_)
ViolationDeductions(violations) ==
    IF violations = << >> THEN 0
    ELSE ViolationDeduction(Head(violations)) + ViolationDeductions(Tail(violations))

\* A Vulnerability, by its type, severity and affected component.
Vulnerability(type, severity, component) ==
    [vulnerability_type |-> type, severity |-> severity, affected_component |-> component]

\* A SecretFindings entry; confidence is held in hundredths (0.85 is 85).
SecretFinding(type, severity, confidence, file_path) ==
    [secret_type |-> type, severity |-> severity, confidence |-> confidence,
     file_path |-> file_path]

\* VulnerabilityScanner::get_findings: the one vulnerability it returns.
GetVulnerabilityFindings ==
    << Vulnerability("SqlInjection", "High", "database.go:45") >>

\* SecretsDetector::get_findings: the one secret it returns.
GetSecretFindings ==
    << SecretFinding("ApiKey", "High", 85, "config.go") >>

\* calculate_security_score, the match on vulnerability.severity, in thousandths.
VulnerabilityDeduction(vulnerability) ==
    CASE vulnerability.severity = "Critical" -> 30000
      [] vulnerability.severity = "High" -> 20000
      [] vulnerability.severity = "Medium" -> 10000
      [] vulnerability.severity = "Low" -> 5000

RECURSIVE VulnerabilityDeductions(_)
VulnerabilityDeductions(vulnerabilities) ==
    IF vulnerabilities = << >> THEN 0
    ELSE VulnerabilityDeduction(Head(vulnerabilities))
         + VulnerabilityDeductions(Tail(vulnerabilities))

\* calculate_security_score, the match on secret.severity times the confidence,
\* in thousandths.
SecretDeduction(secret) ==
    (CASE secret.severity = "Critical" -> 20
       [] secret.severity = "High" -> 12
       [] secret.severity = "Medium" -> 6
       [] secret.severity = "Low" -> 2) * secret.confidence * 10

RECURSIVE SecretDeductions(_)
SecretDeductions(secrets) ==
    IF secrets = << >> THEN 0
    ELSE SecretDeduction(Head(secrets)) + SecretDeductions(Tail(secrets))

\* f64::max(0.0) left out.
AtLeastZero_Identity(score) == score

\* f64::max(0.0) on a security score.
AtLeastZero(score) == IF score < 0 THEN 0 ELSE score

\* calculate_security_score: 100 less the deductions of the three loops, not
\* below 0.
CalculateSecurityScore(violations, vulnerabilities, secrets) ==
    LET score == 100000 - ViolationDeductions(violations)
                        - VulnerabilityDeductions(vulnerabilities)
                        - SecretDeductions(secrets)
    IN AtLeastZero(score)

\* determine_risk_level with the boundaries given to the more severe level.
DetermineRiskLevel_Inclusive(score, violations) ==
    LET has_critical == \E i \in 1..Len(violations) : violations[i].severity = "Critical"
    IN IF has_critical \/ score <= 30000 THEN "Critical"
       ELSE IF score <= 50000 THEN "High"
       ELSE IF score <= 70000 THEN "Medium"
       ELSE IF score <= 90000 THEN "Low"
       ELSE "Minimal"

\* determine_risk_level
DetermineRiskLevel(score, violations) ==
    LET has_critical == \E i \in 1..Len(violations) : violations[i].severity = "Critical"
    IN IF has_critical \/ score < 30000 THEN "Critical"
       ELSE IF score < 50000 THEN "High"
       ELSE IF score < 70000 THEN "Medium"
       ELSE IF score < 90000 THEN "Low"
       ELSE "Minimal"

\* collect_results: the security_score of the SecurityResult it returns.
CollectResults(sec) ==
    CalculateSecurityScore(CollectSecurityViolations(sec),
                           GetVulnerabilityFindings, GetSecretFindings)

\* the match on violation.risk_level of both entry points
RiskSeverity(risk) ==
    CASE risk = "critical" -> "Critical"
      [] risk = "high" -> "High"
      [] risk = "medium" -> "Medium"
      [] risk = "low" -> "Low"
      [] OTHER -> "Info"

\* the findings both entry points derive from the violations, with the confidence
\* each of them gives (0.9 in execute_security_validation, 0.8 in analyze_security_issues)
ViolationFindings(violations, confidence) ==
    [i \in 1..Len(violations) |->
        Finding("SecurityVulnerability", RiskSeverity(violations[i].risk_level),
                violations[i].title, confidence)]

-----------------------------------------------------------------------------
(* Scores, in thousandths of a point *)

\* Clamp with the upper limit only.
Clamp_UpperOnly(score) == IF score > 100000 THEN 100000 ELSE score

\* f64::clamp(0.0, 100.0)
Clamp(score) == IF score < 0 THEN 0 ELSE IF score > 100000 THEN 100000 ELSE score

\* f64::max(0.0)
Max0(score) == IF score < 0 THEN 0 ELSE score

\* RuntimeValidator::calculate_overall_score, the match on finding.severity (points).
SeverityDeduction(severity) ==
    CASE severity = "Critical" -> 25
      [] severity = "High" -> 15
      [] severity = "Medium" -> 8
      [] severity = "Low" -> 3
      [] OTHER -> 1

\* RuntimeValidator::calculate_overall_score, the loop: deduction * confidence.
RECURSIVE FindingDeductions(_)
FindingDeductions(findings) ==
    IF findings = << >> THEN 0
    ELSE SeverityDeduction(Head(findings).severity) * Head(findings).confidence * 100
         + FindingDeductions(Tail(findings))

\* RuntimeValidator::calculate_overall_score (lib.rs)
CalculateOverallScore(result) ==
    LET score == 100000 - FindingDeductions(result.findings)
        performance_score == 100000 - result.cpu_usage_percent * 500
        with_performance == (score + performance_score) \div 2
        with_security == (with_performance + result.security_score) \div 2
    IN Clamp(with_security)

\* Number of findings of a type.
CountFindings(findings, type) ==
    Cardinality({i \in 1..Len(findings) : findings[i].finding_type = type})

\* ResultAggregator::calculate_performance_score
CalculatePerformanceScore(cpu, memory) ==
    LET cpu_score == Max0(100000 - cpu * 1000)
        memory_score == IF memory > 0 THEN Max0(100000 - memory * 100) ELSE 100000
    IN (cpu_score + memory_score) \div 2

\* ResultAggregator::calculate_functionality_score
CalculateFunctionalityScore(result) ==
    LET runtime_errors == CountFindings(result.findings, "RuntimeError")
    IN IF runtime_errors = 0 THEN 100000 ELSE Max0(100000 - runtime_errors * 20000)

\* ResultAggregator::calculate_quality_score
CalculateQualityScore(result) == Max0(100000 - Len(result.findings) * 5000)

\* ResultAggregator::calculate_reliability_score
CalculateReliabilityScore(result) ==
    LET crash_findings == CountFindings(result.findings, "CrashProne")
    IN IF crash_findings = 0 THEN 100000 ELSE Max0(100000 - crash_findings * 25000)

\* ResultAggregator::calculate_weighted_score with the weights of
\* ResultAggregator::new (0.30, 0.20, 0.25, 0.15, 0.10).
CalculateWeightedScore(result) ==
    LET weighted_score ==
            (result.security_score * 30
             + CalculatePerformanceScore(result.cpu_usage_percent, result.memory_usage_mb) * 20
             + CalculateFunctionalityScore(result) * 25
             + CalculateQualityScore(result) * 15
             + CalculateReliabilityScore(result) * 10) \div 100
    IN Clamp(weighted_score)

\* A Recommendation, by its title and priority.
Recommendation(title, priority) == [title |-> title, priority |-> priority]

\* ResultAggregator::generate_recommendations (validation.rs)
GenerateRecommendations(result) ==
    (IF result.security_score < 70000
     THEN << Recommendation("Improve Security Posture", "Critical") >>
     ELSE << >>)
    \o (IF result.cpu_usage_percent > 80
        THEN << Recommendation("Optimize Performance", "Medium") >>
        ELSE << >>)

\* RuntimeValidator::generate_recommendations (lib.rs)
RvGenerateRecommendations(result) ==
    (IF result.cpu_usage_percent > 80
     THEN << Recommendation("Optimize CPU Usage", "Medium") >>
     ELSE << >>)
    \o (IF result.memory_usage_mb > 100
        THEN << Recommendation("Reduce Memory Usage", "Medium") >>
        ELSE << >>)
    \o (IF result.security_score < 70000
        THEN << Recommendation("Improve Security Posture", "High") >>
        ELSE << >>)

-----------------------------------------------------------------------------
(* ContainerManager *)

\* create_execution_environment: the environment never carries a container id.
NewExecutionEnvironment(e) == [id |-> e, container_id |-> NoContainer]

\* Outcomes of the daemon RPCs of execute_code.
ExecOutcomes == {"create_failed", "start_failed", "exec_failed", "exit_zero", "exit_nonzero"}

\* create_container: on success the daemon holds the container kwality-exec-<env.id>.
CreateContainer(containers, e) == containers \cup {e}

\* remove_container(force = true).
RemoveContainer(containers, e) == containers \ {e}

\* exit code execute_code reports for an outcome that reaches the exec.
ExitCode(outcome) ==
    CASE outcome = "exec_failed" -> -1
      [] outcome = "exit_zero" -> 0
      [] outcome = "exit_nonzero" -> 1

\* execute_code, start to end: create, start, exec, stats, stop, remove.
\* A create or start failure returns through `?` before the stop/remove calls.
ExecuteCode(containers, e, outcome) ==
    CASE outcome = "create_failed" ->
            [ok |-> FALSE, containers |-> containers, removes |-> 0, exit_code |-> 0]
      [] outcome = "start_failed" ->
            [ok |-> FALSE, containers |-> CreateContainer(containers, e),
             removes |-> 0, exit_code |-> 0]
      [] OTHER ->
            [ok |-> TRUE,
             containers |-> RemoveContainer(CreateContainer(containers, e), e),
             removes |-> 1, exit_code |-> ExitCode(outcome)]

\* cleanup_environment: removes the container named by env.container_id, if any.
\* The workspace is left to the drop of env.temp_dir.
CleanupEnvironment(containers, env) ==
    IF env.container_id # NoContainer
    THEN RemoveContainer(containers, env.container_id)
    ELSE containers

\* A CodeFile.path, held by its directory, stem and extension:
\* "src/a.py" is Path("src/", "a", "py").
Path(dir, stem, ext) == [dir |-> dir, stem |-> stem, ext |-> ext]

\* No path: the argument of a command that names no file.
NoPath == Path("", "", "")

\* The paths the codebases are made of: at least two files of each language, the
\* manifests and entry files the detection looks for, and a file of no language.
FilePaths ==
    {Path("", "main", "go"), Path("", "util", "go"),
     Path("", "Cargo", "toml"), Path("", "a", "rs"), Path("", "b", "rs"),
     Path("", "main", "py"), Path("", "__main__", "py"), Path("", "a", "py"),
     Path("", "package", "json"), Path("", "a", "js"), Path("", "b", "js"),
     Path("", "a", "ts"),
     Path("", "A", "java"), Path("", "B", "java"),
     Path("", "README", "md")}

\* str::ends_with(".ext")
EndsWith(path, ext) == path.ext = ext

\* path == "name.ext"
IsFile(path, stem, ext) == path = Path("", stem, ext)

\* str::replace(".ext", "") on a path whose only ".ext" is its extension.
StripExt(path, ext) == IF path.ext = ext THEN Path(path.dir, path.stem, "") ELSE path

\* Iterator::find(..).map(|f| f.path.clone()).unwrap_or_else(|| default): the
\* first path of the files that the closure accepts; a closure over paths is held
\* as the set of the paths it accepts.
FindPath(files, test, default) ==
    LET hits == {i \in 1..Len(files) : files[i] \in test}
    IN IF hits = {} THEN default
       ELSE files[CHOOSE i \in hits : \A j \in hits : i <= j]

\* any looking at the first file only.
AnyPath_FirstOnly(files, test) == files # << >> /\ files[1] \in test

\* Iterator::any
AnyPath(files, test) == \E i \in 1..Len(files) : files[i] \in test

\* A command line: the fixed words of the vector, the path it names (NoPath if
\* none) and the path derived from it by replace (NoPath if none).
Command(words, file, derived) == [words |-> words, file |-> file, derived |-> derived]

NoCommand == Command(<< >>, NoPath, NoPath)

\* detect_execution_command: the has_* flags of the scan, then the if-else chain.
DetectExecutionCommand(files) ==
    LET paths == {files[i] : i \in 1..Len(files)}
        IsGo == {p \in paths : EndsWith(p, "go")}
        IsRs == {p \in paths : EndsWith(p, "rs")}
        IsCargo == {p \in paths : IsFile(p, "Cargo", "toml")}
        IsPy == {p \in paths : EndsWith(p, "py")}
        IsMainPy == {p \in paths : IsFile(p, "main", "py") \/ IsFile(p, "__main__", "py")}
        IsJs == {p \in paths : EndsWith(p, "js")}
        IsPackageJson == {p \in paths : IsFile(p, "package", "json")}
        IsJava == {p \in paths : EndsWith(p, "java")}
        IsMainGo == {p \in paths : IsFile(p, "main", "go")}
        IsRust == IsRs \cup IsCargo
        IsJavascript == IsJs \cup {p \in paths : EndsWith(p, "ts")} \cup IsPackageJson
        has_go == AnyPath(files, IsGo)
        has_rust == AnyPath(files, IsRust)
        has_python == AnyPath(files, IsPy)
        has_javascript == AnyPath(files, IsJavascript)
        has_java == AnyPath(files, IsJava)
        rust_file == FindPath(files, IsRs, Path("", "main", "rs"))
        py_file == FindPath(files, IsPy, Path("", "main", "py"))
        js_file == FindPath(files, IsJs, Path("", "index", "js"))
        java_file == FindPath(files, IsJava, Path("", "Main", "java"))
    IN IF has_go
       THEN IF AnyPath(files, IsMainGo)
            THEN Command(<< "go", "run" >>, Path("", "main", "go"), NoPath)
            ELSE Command(<< "go", "run", "." >>, NoPath, NoPath)
       ELSE IF has_rust
       THEN IF AnyPath(files, IsCargo)
            THEN Command(<< "cargo", "run" >>, NoPath, NoPath)
            ELSE Command(<< "rustc", "&&" >>, rust_file, StripExt(rust_file, "rs"))
       ELSE IF has_python
       THEN IF AnyPath(files, IsMainPy)
            THEN Command(<< "python3" >>, FindPath(files, IsMainPy, NoPath), NoPath)
            ELSE Command(<< "python3" >>, py_file, NoPath)
       ELSE IF has_javascript
       THEN IF AnyPath(files, IsPackageJson)
            THEN Command(<< "npm", "start" >>, NoPath, NoPath)
            ELSE Command(<< "node" >>, js_file, NoPath)
       ELSE IF has_java
       THEN Command(<< "javac", "&&", "java" >>, java_file, StripExt(java_file, "java"))
       ELSE Command(<< "sh", "-c", "echo 'No runnable code detected'" >>, NoPath, NoPath)

-----------------------------------------------------------------------------
(* FuzzingEngine data *)

\* The FuzzingResult fuzz_code starts from.
NewFuzzingResult ==
    [total_executions |-> 0, crashes_found |-> 0, unique_crashes |-> 0,
     coverage_percentage |-> 0, crashes |-> << >>, interesting_inputs |-> << >>,
     coverage_info |-> [lines_covered |-> 0]]

\* The execution_path values execute_with_input reports.
Paths == 1..MaxPaths

\* CoverageTracker::update_coverage: the map after an execution on `path`.
UpdateCoverage(map, path) ==
    IF path \in DOMAIN map
    THEN [map EXCEPT ![path] = @ + 1]
    ELSE MapInsert(map, path, 1)

\* CoverageTracker::update_coverage: the coverage change it returns (1.0 or 0.0).
CoverageChange(map, path) == IF path \in DOMAIN map THEN 0 ELSE 1

\* CoverageTracker::get_coverage_info: lines_covered.
GetCoverageInfo(map) == [lines_covered |-> Cardinality(DOMAIN map)]

\* A CrashReport, by the fields is_unique_crash compares.
CrashReport(type, location) == [crash_type |-> type, crash_location |-> location]

\* CrashDetector::analyze_execution on what execute_with_input returns: exit
\* code -1 comes with stderr "segmentation fault", which the first pattern matches.
AnalyzeExecution(crashed) ==
    IF crashed THEN << CrashReport("SegmentationFault", "None") >> ELSE << >>

\* is_unique_crash with every crash taken for a new one.
IsUniqueCrash_Always(crash, existing_crashes) == TRUE

\* is_unique_crash
IsUniqueCrash(crash, existing_crashes) ==
    ~ \E i \in 1..Len(existing_crashes) :
          /\ crash.crash_type = existing_crashes[i].crash_type
          /\ crash.crash_location = existing_crashes[i].crash_location

\* CoverageTracker::get_coverage_percentage: entries of the map out of 100
\* possible paths, at most 100.
GetCoveragePercentage(map) ==
    IF Cardinality(DOMAIN map) > 100 THEN 100 ELSE Cardinality(DOMAIN map)

\* The for loop of fuzz_code entered once more at i = iterations.
LoopRuns_Inclusive(i, iterations) == i <= iterations

\* for i in 0..self.config.iterations: the body runs for i.
LoopRuns(i, iterations) == i < iterations

-----------------------------------------------------------------------------
(* ValidationOrchestrator *)

\* create_validation_pipeline: the phases execute_pipeline iterates over.
PipelinePhases ==
    << "Initialization", "EnvironmentSetup", "SecurityScanning", "RuntimeExecution",
       "PerformanceProfiling", "FuzzTesting", "ResultAggregation", "Cleanup" >>

\* UpdatePhase with completed_phases rebuilt from the phase just left.
UpdatePhase_RebuildsList(session, phase) ==
    LET completed == << session.current_phase >>
    IN [session EXCEPT !.completed_phases = completed,
                       !.current_phase = phase,
                       !.overall_progress = Len(completed)]

\* UpdatePhase pushing the phase just left whether or not it is in the list.
UpdatePhase_AlwaysPushes(session, phase) ==
    LET completed == Append(session.completed_phases, session.current_phase)
    IN [session EXCEPT !.completed_phases = completed,
                       !.current_phase = phase,
                       !.overall_progress = Len(completed)]

\* update_validation_phase on a session.
UpdatePhase(session, phase) ==
    LET completed == IF SeqContains(session.completed_phases, session.current_phase)
                     THEN session.completed_phases
                     ELSE Append(session.completed_phases, session.current_phase)
    IN [session EXCEPT !.completed_phases = completed,
                       !.current_phase = phase,
                       !.overall_progress = Len(completed)]

\* update_validation_phase on the registry: nothing happens for an unknown id.
UpdateValidationPhase(registry, id, phase) ==
    IF id \in DOMAIN registry
    THEN [registry EXCEPT ![id] = UpdatePhase(registry[id], phase)]
    ELSE registry

\* get_validation_status: the ids it returns Some(session) for.
GetValidationStatus == DOMAIN active_validations

\* list_active_validations
ListActiveValidations == {active_validations[id] : id \in DOMAIN active_validations}

\* MetricsCollector::new
NewMetrics ==
    [containers_created |-> 0, containers_destroyed |-> 0,
     total_validations |-> 0, successful_validations |-> 0, failed_validations |-> 0,
     total_errors |-> 0]

\* record_container_event
RecordContainerEvent(m, event) ==
    CASE event = "Created" -> [m EXCEPT !.containers_created = @ + 1]
      [] event = "Destroyed" -> [m EXCEPT !.containers_destroyed = @ + 1]
      [] OTHER -> m

\* record_validation (counters)
RecordValidation(m, success) ==
    IF success
    THEN [m EXCEPT !.total_validations = @ + 1, !.successful_validations = @ + 1]
    ELSE [m EXCEPT !.total_validations = @ + 1, !.failed_validations = @ + 1]

\* record_error (counter)
RecordError(m) == [m EXCEPT !.total_errors = @ + 1]

\* start_validation: registers the session and spawns the background task.
StartValidation(id) ==
    /\ pc[id] = "idle"
    /\ active_validations' = MapInsert(active_validations, id, NewSession)
    /\ pc' = [pc EXCEPT ![id] = "spawned"]
    /\ UNCHANGED << config, pipeline_idx, validation_result, pipeline_result,
                    execution_env, host_dirs, docker_containers, metrics, container_events,
                    cleanup_calls, remove_attempts, executed_phases, execution_outcome, phase_seconds, rv_vars, cm_vars, fz_vars, unit_vars >>

\* cancel_validation: marks the session, if it is registered.
CancelValidation(id) ==
    /\ id \in DOMAIN active_validations
    /\ active_validations' =
           [active_validations EXCEPT ![id] = [@ EXCEPT !.status = "Cancelled"]]
    /\ UNCHANGED << config, pc, pipeline_idx, validation_result, pipeline_result,
                    execution_env, host_dirs, docker_containers, metrics, container_events,
                    cleanup_calls, remove_attempts, executed_phases, execution_outcome, phase_seconds, rv_vars, cm_vars, fz_vars, unit_vars >>

\* mark_validation_failed, called by the spawned task when execute_validation
\* returned an error.
MarkValidationFailed(id) ==
    /\ pc[id] = "mark_failed"
    /\ active_validations' =
           IF id \in DOMAIN active_validations
           THEN [active_validations EXCEPT ![id] = [@ EXCEPT !.status = "Failed"]]
           ELSE active_validations
    /\ pc' = [pc EXCEPT ![id] = "done"]
    /\ UNCHANGED << config, pipeline_idx, validation_result, pipeline_result,
                    execution_env, host_dirs, docker_containers, metrics, container_events,
                    cleanup_calls, remove_attempts, executed_phases, execution_outcome, phase_seconds, rv_vars, cm_vars, fz_vars, unit_vars >>

\* execute_validation, line 252: the phase becomes EnvironmentSetup.
BeginEnvironmentSetup(id) ==
    /\ pc[id] = "spawned"
    /\ active_validations' = UpdateValidationPhase(active_validations, id, "EnvironmentSetup")
    /\ pc' = [pc EXCEPT ![id] = "create_env"]
    /\ UNCHANGED << config, pipeline_idx, validation_result, pipeline_result,
                    execution_env, host_dirs, docker_containers, metrics, container_events,
                    cleanup_calls, remove_attempts, executed_phases, execution_outcome, phase_seconds, rv_vars, cm_vars, fz_vars, unit_vars >>

\* execute_validation, lines 255-277: create_execution_environment, the Created
\* event and the fresh result.  On an I/O error the temporary directory is
\* dropped inside create_execution_environment and the error is returned.
CreateEnvironment(id) ==
    /\ pc[id] = "create_env"
    /\ \E io_ok \in BOOLEAN :
          IF io_ok
          THEN /\ execution_env' = MapInsert(execution_env, id, NewExecutionEnvironment(id))
               /\ host_dirs' = host_dirs \cup {id}
               /\ metrics' = RecordContainerEvent(metrics, "Created")
               /\ container_events' = [container_events EXCEPT ![id] = Append(@, "Created")]
               /\ validation_result' = [validation_result EXCEPT ![id] = NewValidationResult]
               /\ pipeline_idx' = [pipeline_idx EXCEPT ![id] = 1]
               /\ pc' = [pc EXCEPT ![id] = "phase_update"]
          ELSE /\ pc' = [pc EXCEPT ![id] = "mark_failed"]
               /\ UNCHANGED << execution_env, host_dirs, metrics, container_events, validation_result,
                               pipeline_idx >>
    /\ UNCHANGED << config, active_validations, pipeline_result, docker_containers,
                    cleanup_calls, remove_attempts, executed_phases, execution_outcome, phase_seconds, rv_vars, cm_vars, fz_vars, unit_vars >>

\* execute_pipeline, line 343: the loop publishes the phase it is about to run
\* (whose clock starts).
UpdatePipelinePhase(id) ==
    /\ pc[id] = "phase_update"
    /\ active_validations' =
           UpdateValidationPhase(active_validations, id, PipelinePhases[pipeline_idx[id]])
    /\ pc' = [pc EXCEPT ![id] = "phase_body"]
    /\ phase_seconds' = [phase_seconds EXCEPT ![id] = 0]
    /\ UNCHANGED << config, pipeline_idx, validation_result, pipeline_result,
                    execution_env, host_dirs, docker_containers, metrics, container_events,
                    cleanup_calls, remove_attempts, executed_phases, execution_outcome, rv_vars, cm_vars, fz_vars, unit_vars >>

CurrentPipelinePhase(id) == PipelinePhases[pipeline_idx[id]]

\* The loop of execute_pipeline after a phase body returned Ok: the next phase,
\* or Ok(()) after the last one.
PhaseOk(id) ==
    /\ executed_phases' = [executed_phases EXCEPT ![id] = Append(@, CurrentPipelinePhase(id))]
    /\ IF pipeline_idx[id] < Len(PipelinePhases)
       THEN /\ pipeline_idx' = [pipeline_idx EXCEPT ![id] = @ + 1]
            /\ pc' = [pc EXCEPT ![id] = "phase_update"]
            /\ UNCHANGED pipeline_result
       ELSE /\ pipeline_result' = [pipeline_result EXCEPT ![id] = "Ok"]
            /\ pc' = [pc EXCEPT ![id] = "post_pipeline"]
            /\ UNCHANGED pipeline_idx

\* PhaseErr with the error propagated out of execute_validation by a `?` on the
\* result of execute_pipeline, before the Destroyed event and the cleanup.
PhaseErr_ReturnsBeforeCleanup(id) ==
    /\ executed_phases' = [executed_phases EXCEPT ![id] = Append(@, CurrentPipelinePhase(id))]
    /\ pipeline_result' = [pipeline_result EXCEPT ![id] = "Err"]
    /\ pc' = [pc EXCEPT ![id] = "mark_failed"]
    /\ UNCHANGED pipeline_idx

\* A phase body returned Err: `?` leaves execute_pipeline at once.
PhaseErr(id) ==
    /\ executed_phases' = [executed_phases EXCEPT ![id] = Append(@, CurrentPipelinePhase(id))]
    /\ pipeline_result' = [pipeline_result EXCEPT ![id] = "Err"]
    /\ pc' = [pc EXCEPT ![id] = "post_pipeline"]
    /\ UNCHANGED pipeline_idx

AppendFindings(result, fs) == [result EXCEPT !.findings = @ \o fs]

\* create_validation_pipeline: timeout_per_phase, in seconds.
TimeoutPerPhase ==
    [phase \in {"SecurityScanning", "RuntimeExecution", "PerformanceProfiling", "FuzzTesting"} |->
        CASE phase = "SecurityScanning" -> 60
          [] phase = "RuntimeExecution" -> 120
          [] phase = "PerformanceProfiling" -> 90
          [] phase = "FuzzTesting" -> 180]

\* Seconds a phase body may take before it returns: a short one, and one longer
\* than every entry of timeout_per_phase.
PhaseSeconds == {1, 200}

\* The body of the current phase returned after `seconds`; execute_pipeline awaits
\* it directly, whatever timeout_per_phase holds for the phase.
PhaseTook(id, seconds) == phase_seconds' = [phase_seconds EXCEPT ![id] = seconds]

\* execute_security_validation
ExecuteSecurityValidation(id) ==
    /\ pc[id] = "phase_body"
    /\ CurrentPipelinePhase(id) = "SecurityScanning"
    /\ validation_result' =
           [validation_result EXCEPT ![id] =
               AppendFindings([@ EXCEPT !.security_score = CollectResults(config.security)],
                   ViolationFindings(CollectSecurityViolations(config.security), 9))]
    /\ \E seconds \in PhaseSeconds : PhaseTook(id, seconds)
    /\ PhaseOk(id)
    /\ UNCHANGED << config, active_validations, execution_env, host_dirs,
                    docker_containers, metrics, container_events, cleanup_calls, remove_attempts, execution_outcome, rv_vars, cm_vars, fz_vars, unit_vars >>

\* the findings execute_runtime_validation derives from an ExecutionResult
RuntimeFindings(exit_code) ==
    IF exit_code # 0
    THEN << Finding("RuntimeError", "High", "Runtime Execution Failed", 10) >>
    ELSE << >>

\* execute_runtime_validation: execute_code(env)?, then the exit-code finding.
ExecuteRuntimeValidation(id) ==
    /\ pc[id] = "phase_body"
    /\ CurrentPipelinePhase(id) = "RuntimeExecution"
    /\ \E seconds \in PhaseSeconds : PhaseTook(id, seconds)
    /\ \E outcome \in ExecOutcomes :
          LET r == ExecuteCode(docker_containers, id, outcome) IN
          /\ docker_containers' = r.containers
          /\ remove_attempts' = [remove_attempts EXCEPT ![id] = @ + r.removes]
          /\ execution_outcome' = [execution_outcome EXCEPT ![id] = outcome]
          /\ IF r.ok
             THEN /\ validation_result' =
                        [validation_result EXCEPT ![id] =
                            AppendFindings(@, RuntimeFindings(r.exit_code))]
                  /\ PhaseOk(id)
             ELSE /\ UNCHANGED validation_result
                  /\ PhaseErr(id)
    /\ UNCHANGED << config, active_validations, execution_env, host_dirs,
                    metrics, container_events, cleanup_calls, rv_vars, cm_vars, fz_vars, unit_vars >>

\* the finding execute_performance_validation derives from the metrics
PerformanceFindings(cpu) ==
    IF cpu > 90
    THEN << Finding("PerformanceIssue", "Medium", "High CPU Usage", 8) >>
    ELSE << >>

\* execute_performance_validation
ExecutePerformanceValidation(id) ==
    /\ pc[id] = "phase_body"
    /\ CurrentPipelinePhase(id) = "PerformanceProfiling"
    /\ \E cpu \in CpuSamples, memory \in MemorySamples :
          validation_result' =
              [validation_result EXCEPT ![id] =
                  AppendFindings([@ EXCEPT !.cpu_usage_percent = cpu,
                                            !.memory_usage_mb = memory],
                                 PerformanceFindings(cpu))]
    /\ \E seconds \in PhaseSeconds : PhaseTook(id, seconds)
    /\ PhaseOk(id)
    /\ UNCHANGED << config, active_validations, execution_env, host_dirs,
                    docker_containers, metrics, container_events, cleanup_calls, remove_attempts, execution_outcome, rv_vars, cm_vars, fz_vars, unit_vars >>

\* the findings execute_fuzzing_validation derives from the crashes of a campaign;
\* execute_with_input only ever reports "segmentation fault", so a campaign holds
\* at most one unique crash.
CrashFindings(crashed) ==
    IF crashed
    THEN << Finding("CrashProne", "Critical", "Fuzzing Crash: SegmentationFault", 9) >>
    ELSE << >>

\* the FuzzTesting arm of execute_pipeline
ExecuteFuzzingValidation(id) ==
    /\ pc[id] = "phase_body"
    /\ CurrentPipelinePhase(id) = "FuzzTesting"
    /\ IF config.fuzzing_enabled
       THEN /\ \E crashed \in BOOLEAN :
                  validation_result' =
                      [validation_result EXCEPT ![id] =
                          AppendFindings([@ EXCEPT !.fuzzing_result = "Some"],
                                         CrashFindings(crashed))]
            /\ \E seconds \in PhaseSeconds : PhaseTook(id, seconds)
       ELSE /\ UNCHANGED validation_result
            /\ PhaseTook(id, 0)
    /\ PhaseOk(id)
    /\ UNCHANGED << config, active_validations, execution_env, host_dirs,
                    docker_containers, metrics, container_events, cleanup_calls, remove_attempts, execution_outcome, rv_vars, cm_vars, fz_vars, unit_vars >>

\* the ResultAggregation arm of execute_pipeline: aggregate_results (the weighted
\* score, then the recommendations)
AggregateResults(id) ==
    /\ pc[id] = "phase_body"
    /\ CurrentPipelinePhase(id) = "ResultAggregation"
    /\ validation_result' =
           [validation_result EXCEPT ![id] =
               [@ EXCEPT !.overall_score = CalculateWeightedScore(validation_result[id]),
                         !.recommendations = GenerateRecommendations(validation_result[id])]]
    /\ PhaseTook(id, 0)
    /\ PhaseOk(id)
    /\ UNCHANGED << config, active_validations, execution_env, host_dirs,
                    docker_containers, metrics, container_events, cleanup_calls, remove_attempts,
                    execution_outcome, rv_vars, cm_vars, fz_vars, unit_vars >>

\* the `_` arm of execute_pipeline: the phase is skipped.
ExecuteOtherPhase(id) ==
    /\ pc[id] = "phase_body"
    /\ CurrentPipelinePhase(id) \in {"Initialization", "EnvironmentSetup", "Cleanup"}
    /\ PhaseTook(id, 0)
    /\ PhaseOk(id)
    /\ UNCHANGED << config, active_validations, validation_result, execution_env,
                    host_dirs, docker_containers, metrics, container_events, cleanup_calls,
                    remove_attempts, execution_outcome, rv_vars, cm_vars, fz_vars, unit_vars >>

\* execute_validation, lines 282-305: the Destroyed event, the cleanup guarded by
\* cleanup_after_validation, and the final status of the result.
PostPipeline(id) ==
    /\ pc[id] = "post_pipeline"
    /\ metrics' = RecordContainerEvent(metrics, "Destroyed")
    /\ container_events' = [container_events EXCEPT ![id] = Append(@, "Destroyed")]
    /\ IF config.cleanup_after_validation
       THEN /\ docker_containers' = CleanupEnvironment(docker_containers, execution_env[id])
            /\ cleanup_calls' = [cleanup_calls EXCEPT ![id] = @ + 1]
       ELSE UNCHANGED << docker_containers, cleanup_calls >>
    /\ LET finalized == [validation_result[id] EXCEPT !.status =
                             IF pipeline_result[id] = "Ok" THEN "Completed" ELSE "Failed"]
       IN validation_result' =
              [validation_result EXCEPT ![id] =
                  [finalized EXCEPT !.overall_score = CalculateWeightedScore(finalized)]]
    /\ pc' = [pc EXCEPT ![id] = "final_phase"]
    /\ UNCHANGED << config, active_validations, pipeline_idx, pipeline_result,
                    execution_env, host_dirs, remove_attempts, executed_phases, execution_outcome, phase_seconds, rv_vars, cm_vars, fz_vars, unit_vars >>

\* execute_validation, lines 307-317: the phase becomes Completed, record_validation.
FinalPhaseUpdate(id) ==
    /\ pc[id] = "final_phase"
    /\ active_validations' = UpdateValidationPhase(active_validations, id, "Completed")
    /\ metrics' = RecordValidation(metrics, pipeline_result[id] = "Ok")
    /\ UNCHANGED container_events
    /\ pc' = [pc EXCEPT ![id] = "remove"]
    /\ UNCHANGED << config, pipeline_idx, validation_result, pipeline_result,
                    execution_env, host_dirs, docker_containers, cleanup_calls,
                    remove_attempts, executed_phases, execution_outcome, phase_seconds, rv_vars, cm_vars, fz_vars, unit_vars >>

\* execute_validation, lines 319-336: the session leaves the registry, the error
\* is recorded, and the function returns, dropping execution_env and with it the
\* TempDir of the workspace.
RemoveSession(id) ==
    /\ pc[id] = "remove"
    /\ active_validations' = MapRemove(active_validations, id)
    /\ metrics' = IF pipeline_result[id] = "Err" THEN RecordError(metrics) ELSE metrics
    /\ UNCHANGED container_events
    /\ host_dirs' = host_dirs \ {id}
    /\ execution_env' = MapRemove(execution_env, id)
    /\ pc' = [pc EXCEPT ![id] = IF pipeline_result[id] = "Err" THEN "mark_failed" ELSE "done"]
    /\ UNCHANGED << config, pipeline_idx, validation_result, pipeline_result,
                    docker_containers, cleanup_calls, remove_attempts,
                    executed_phases, execution_outcome, phase_seconds, rv_vars, cm_vars, fz_vars, unit_vars >>

-----------------------------------------------------------------------------
(* Specification of the orchestrator *)

\* The validators, the container manager and the fuzzing engine before their
\* first call.
ComponentsInit ==
    /\ active_validations = << >>
    /\ pc = [id \in Ids |-> "idle"]
    /\ pipeline_idx = [id \in Ids |-> 1]
    /\ validation_result = [id \in Ids |-> NewValidationResult]
    /\ pipeline_result = [id \in Ids |-> "None"]
    /\ execution_env = << >>
    /\ host_dirs = {}
    /\ docker_containers = {}
    /\ metrics = NewMetrics
    /\ container_events = [id \in Ids |-> << >>]
    /\ cleanup_calls = [e \in EnvIds |-> 0]
    /\ remove_attempts = [e \in EnvIds |-> 0]
    /\ executed_phases = [id \in Ids |-> << >>]
    /\ execution_outcome = [id \in Ids |-> "None"]
    /\ phase_seconds = [id \in Ids |-> 0]
    /\ rv_pc = "idle"
    /\ rv_result = NewValidationResult
    /\ rv_execution = "None"
    /\ rv_steps = << >>
    /\ cm_pc = "idle"
    /\ cm_last = "None"
    /\ cm_written = 0
    /\ host_files = {}
    /\ fz_pc = "none"
    /\ fz_config = [iterations |-> 0, coverage_guided |-> FALSE]
    /\ coverage_map = << >>
    /\ fz_i = 0
    /\ fz_result = NewFuzzingResult
    /\ fz_runs = 0
    /\ fz_executions = << >>

\* No codebase has been handed to execute_code.
NoExecution ==
    /\ codebase = << >>
    /\ dx_pc = "none"
    /\ dx_command = NoCommand
    /\ dx_execution = "None"
    /\ dx_result = NewValidationResult

\* Nothing has been handed to the scoring of SecurityMonitor.
NoScoring ==
    /\ sc_pc = "none"
    /\ sc_violations = << >>
    /\ sc_vulnerabilities = << >>
    /\ sc_secrets = << >>
    /\ sc_score = 0
    /\ sc_risk = "None"

\* TimeSeriesBuffer::new(max_points)
NewTimeSeriesBuffer(max_points) ==
    [validation_times |-> << >>, cpu_usage |-> << >>, memory_usage |-> << >>,
     error_rates |-> << >>, max_points |-> max_points]

\* MetricsCollector::new: the time series are empty.
NoSeries ==
    /\ time_series_buffer = NewTimeSeriesBuffer(MaxPoints)
    /\ ts_recorded = [validation_times |-> << >>, cpu_usage |-> << >>,
                      memory_usage |-> << >>, error_rates |-> << >>]

\* Nothing has been handed to the static scans of SecurityMonitor.
NoScan ==
    /\ sn_pc = "none"
    /\ sn_files = << >>
    /\ sn_i = 0
    /\ sn_matches = {}
    /\ sn_vulnerabilities = << >>
    /\ sn_secrets = << >>

\* RuntimeConfig::default().container, the limits in the units of the struct
\* (cpu_limit_cores in tenths of a core).
DefaultContainerConfig ==
    [memory_limit_mb |-> 512, cpu_limit_tenths |-> 10, network_isolation |-> TRUE,
     readonly_filesystem |-> FALSE, temp_dir_size_mb |-> 100]

\* ContainerManager::new(default config): create_container has not been called.
NoCreation ==
    /\ container_config = DefaultContainerConfig
    /\ cc_requests = << >>
    /\ cc_last = "None"

\* The operations driven on their own have not been called.
\* No call of expand_symbol.
NoCall == [symbol |-> "", depth |-> 0]

\* generate_input has not been called.
NoGeneration ==
    /\ gr_pc = "none"
    /\ gr_call = NoCall
    /\ gr_stack = << >>
    /\ gr_capped = {}

\* The tasks calling MetricsCollector.
Tasks == 1..MaxCallers

\* A task that is in no operation.
Idle == [op |-> "none", i |-> 0]

\* The locks of MetricsCollector, by the field each guards.
RwLocks == {"validation_metrics", "performance_metrics", "system_metrics"}

Mutexes == {"error_metrics", "time_series_buffer"}

\* RwLock::new: no holder, no waiter.
NewRwLock == [readers |-> {}, writer |-> 0, waiters |-> << >>]

\* ValidationMetrics::default(): the counters and the histogram of
\* quality_score_distribution, which starts as an empty Vec.
NewValidationMetrics ==
    [total_validations |-> 0, successful_validations |-> 0, failed_validations |-> 0,
     score_histogram |-> << >>]

\* MetricsCollector::new: every lock is free; no task is in an operation.
NoOperation ==
    /\ op_pc = [t \in Tasks |-> Idle]
    /\ rw_locks = [l \in RwLocks |-> NewRwLock]
    /\ mutexes = [m \in Mutexes |-> 0]
    /\ validation_metrics = NewValidationMetrics
    /\ vm_snapshot = NewValidationMetrics

\* No monitor is driven on its own.
NoMonitoring ==
    /\ mon_config = DefaultSecurityConfig
    /\ mon_pc = "none"
    /\ mon_violations = << >>

NoSide ==
    /\ NoCreation
    /\ NoGeneration
    /\ NoOperation
    /\ NoMonitoring

Init ==
    /\ config \in Configs
    /\ ComponentsInit
    /\ NoExecution
    /\ NoScoring
    /\ NoScan
    /\ NoSeries
    /\ NoSide

Next ==
    \E id \in Ids :
        \/ StartValidation(id)
        \/ CancelValidation(id)
        \/ BeginEnvironmentSetup(id)
        \/ CreateEnvironment(id)
        \/ UpdatePipelinePhase(id)
        \/ ExecuteSecurityValidation(id)
        \/ ExecuteRuntimeValidation(id)
        \/ ExecutePerformanceValidation(id)
        \/ ExecuteFuzzingValidation(id)
        \/ AggregateResults(id)
        \/ ExecuteOtherPhase(id)
        \/ PostPipeline(id)
        \/ FinalPhaseUpdate(id)
        \/ RemoveSession(id)
        \/ MarkValidationFailed(id)

Spec == Init /\ [][Next]_vars

-----------------------------------------------------------------------------
(* RuntimeValidator::validate *)

\* FinishValidate with the Err(_) arm of the timeout setting the status only.
FinishValidate_NoTimeoutFinding(result, outcome) ==
    CASE outcome = "Ok" -> [result EXCEPT !.status = "Completed"]
      [] outcome = "Err" ->
            AppendFindings([result EXCEPT !.status = "Failed"],
                << Finding("RuntimeError", "Critical", "Validation Execution Failed", 10) >>)
      [] outcome = "Elapsed" -> [result EXCEPT !.status = "Timeout"]

\* FinishValidate with the Err(e) arm setting the status only.
FinishValidate_NoFailureFinding(result, outcome) ==
    CASE outcome = "Ok" -> [result EXCEPT !.status = "Completed"]
      [] outcome = "Err" -> [result EXCEPT !.status = "Failed"]
      [] outcome = "Elapsed" ->
            AppendFindings([result EXCEPT !.status = "Timeout"],
                << Finding("RuntimeError", "High", "Validation Timeout", 10) >>)

\* FinishValidate with the Err(_) arm of the timeout pushing the finding only.
FinishValidate_TimeoutKeepsStatus(result, outcome) ==
    CASE outcome = "Ok" -> [result EXCEPT !.status = "Completed"]
      [] outcome = "Err" ->
            AppendFindings([result EXCEPT !.status = "Failed"],
                << Finding("RuntimeError", "Critical", "Validation Execution Failed", 10) >>)
      [] outcome = "Elapsed" ->
            AppendFindings(result, << Finding("RuntimeError", "High", "Validation Timeout", 10) >>)

\* The match on the outcome of timeout(timeout_duration, validation_future) and
\* the findings its arms push (lines 355-410).  outcome is "Ok" or "Err" when the
\* future finished, "Elapsed" when the timer won.
FinishValidate(result, outcome) ==
    CASE outcome = "Ok" -> [result EXCEPT !.status = "Completed"]
      [] outcome = "Err" ->
            AppendFindings([result EXCEPT !.status = "Failed"],
                << Finding("RuntimeError", "Critical", "Validation Execution Failed", 10) >>)
      [] outcome = "Elapsed" ->
            AppendFindings([result EXCEPT !.status = "Timeout"],
                << Finding("RuntimeError", "High", "Validation Timeout", 10) >>)

\* The steps of execute_validation during which the future is suspended on an
\* await that can return Pending: filesystem I/O, the daemon RPCs, and the sleep
\* of collect_cpu_usage.  The other steps run to their end without yielding.
RvSuspensionPoints ==
    {"create_env", "exec_create", "exec_start", "exec_run", "exec_remove", "collect_metrics"}

\* Dropping the future drops execution_env, and its TempDir deletes the workspace.
DropEnvironment ==
    /\ execution_env' = MapRemove(execution_env, RvId)
    /\ host_dirs' = host_dirs \ {RvId}

\* CompleteResult with the duration left as it was constructed.
CompleteResult_NoDuration(result) == [result EXCEPT !.completed_at = "Some"]

\* "Calculate final metrics" of validate (lines 411-420): completed_at is set to
\* the current time and duration to the time since started_at (zero when the
\* clock went backwards).
CompleteResult(result) == [result EXCEPT !.completed_at = "Some", !.duration = "Some"]

\* The future of execute_validation ended with `outcome`; validate returns
\* Ok(result), with the completion time, the overall score and the
\* recommendations of the finished result.
RvReturn(outcome) ==
    /\ DropEnvironment
    /\ LET finished == CompleteResult(FinishValidate(rv_result, outcome))
       IN rv_result' = [finished EXCEPT
                           !.overall_score = CalculateOverallScore(finished),
                           !.recommendations = RvGenerateRecommendations(finished)]
    /\ rv_pc' = "done"

RvStep(name) == rv_steps' = Append(rv_steps, name)

\* validate, lines 324-353: the fresh result and the timed future.
Validate ==
    /\ rv_pc = "idle"
    /\ rv_result' = NewValidationResult
    /\ rv_pc' = "create_env"
    /\ UNCHANGED << config, orch_vars, cm_vars, fz_vars, unit_vars, execution_env, host_dirs, docker_containers,
                    cleanup_calls, remove_attempts, rv_execution, rv_steps >>

\* Step 1: create_execution_environment(codebase)?
RvCreateEnvironment ==
    /\ rv_pc = "create_env"
    /\ RvStep("create_env")
    /\ \E io_ok \in BOOLEAN :
          IF io_ok
          THEN /\ execution_env' = MapInsert(execution_env, RvId, NewExecutionEnvironment(RvId))
               /\ host_dirs' = host_dirs \cup {RvId}
               /\ rv_pc' = "start_monitoring"
               /\ UNCHANGED rv_result
          ELSE RvReturn("Err")
    /\ UNCHANGED << config, orch_vars, cm_vars, fz_vars, unit_vars, docker_containers, cleanup_calls,
                    remove_attempts, rv_execution >>

\* Steps 2 and 3: start_monitoring and start_profiling; neither fails nor yields.
RvStartObservers ==
    /\ rv_pc \in {"start_monitoring", "start_profiling"}
    /\ RvStep(rv_pc)
    /\ rv_pc' = IF rv_pc = "start_monitoring" THEN "start_profiling" ELSE "exec_create"
    /\ UNCHANGED << config, orch_vars, cm_vars, fz_vars, unit_vars, execution_env, host_dirs, docker_containers,
                    cleanup_calls, remove_attempts, rv_result, rv_execution >>

\* Step 4 ended with Err(e): execute_validation hands the Result itself to
\* analyze_execution_results, which takes an ExecutionResult; the two readings
\* of that statement are to return the error and to go on without an execution.
RvExecutionFailed ==
    \/ /\ RvReturn("Err")
       /\ UNCHANGED rv_execution
    \/ /\ rv_execution' = [ok |-> FALSE, exit_code |-> 0, stderr |-> ""]
       /\ rv_pc' = "collect_results"
       /\ UNCHANGED << rv_result, execution_env, host_dirs >>

\* Step 4, execute_code: create_container
RvExecCreate ==
    /\ rv_pc = "exec_create"
    /\ RvStep("exec_create")
    /\ \E ok \in BOOLEAN :
          IF ok
          THEN /\ docker_containers' = CreateContainer(docker_containers, RvId)
               /\ rv_pc' = "exec_start"
               /\ UNCHANGED << rv_result, rv_execution, execution_env, host_dirs >>
          ELSE /\ UNCHANGED docker_containers
               /\ RvExecutionFailed
    /\ UNCHANGED << config, orch_vars, cm_vars, fz_vars, unit_vars, cleanup_calls, remove_attempts >>

\* Step 4, execute_code: start_container
RvExecStart ==
    /\ rv_pc = "exec_start"
    /\ RvStep("exec_start")
    /\ \E ok \in BOOLEAN :
          IF ok
          THEN /\ rv_pc' = "exec_run"
               /\ UNCHANGED << rv_result, rv_execution, execution_env, host_dirs >>
          ELSE RvExecutionFailed
    /\ UNCHANGED << config, orch_vars, cm_vars, fz_vars, unit_vars, docker_containers, cleanup_calls, remove_attempts >>

\* Step 4, execute_code: execute_command_in_container
RvExecRun ==
    /\ rv_pc = "exec_run"
    /\ RvStep("exec_run")
    /\ \E outcome \in {"exec_failed", "exit_zero", "exit_nonzero"} :
       \E stderr \in StderrSamples :
          /\ outcome = "exit_zero" => stderr = ""
          /\ outcome = "exec_failed" => stderr = ""
          /\ rv_execution' = [ok |-> TRUE, exit_code |-> ExitCode(outcome), stderr |-> stderr]
    /\ rv_pc' = "exec_remove"
    /\ UNCHANGED << config, orch_vars, cm_vars, fz_vars, unit_vars, execution_env, host_dirs, docker_containers,
                    cleanup_calls, remove_attempts, rv_result >>

\* Step 4, execute_code: stats, stop_container, remove_container
RvExecRemove ==
    /\ rv_pc = "exec_remove"
    /\ RvStep("exec_remove")
    /\ docker_containers' = RemoveContainer(docker_containers, RvId)
    /\ remove_attempts' = [remove_attempts EXCEPT ![RvId] = @ + 1]
    /\ rv_pc' = "collect_results"
    /\ UNCHANGED << config, orch_vars, cm_vars, fz_vars, unit_vars, execution_env, host_dirs, cleanup_calls,
                    rv_result, rv_execution >>

\* Step 5: collect_results; the violations become findings in Step 8.
RvCollectResults ==
    /\ rv_pc = "collect_results"
    /\ RvStep("collect_results")
    /\ rv_result' = [rv_result EXCEPT !.security_score = CollectResults(config.security)]
    /\ rv_pc' = "collect_metrics"
    /\ UNCHANGED << config, orch_vars, cm_vars, fz_vars, unit_vars, execution_env, host_dirs, docker_containers,
                    cleanup_calls, remove_attempts, rv_execution >>

\* Step 6: collect_metrics
RvCollectMetrics ==
    /\ rv_pc = "collect_metrics"
    /\ RvStep("collect_metrics")
    /\ \E cpu \in CpuSamples, memory \in MemorySamples :
          rv_result' = [rv_result EXCEPT !.cpu_usage_percent = cpu,
                                         !.memory_usage_mb = memory]
    /\ rv_pc' = "fuzzing"
    /\ UNCHANGED << config, orch_vars, cm_vars, fz_vars, unit_vars, execution_env, host_dirs, docker_containers,
                    cleanup_calls, remove_attempts, rv_execution >>

\* Step 7: fuzz_code when fuzzing is enabled; the crashes stay in fuzzing_result.
RvFuzzing ==
    /\ rv_pc = "fuzzing"
    /\ RvStep("fuzzing")
    /\ rv_result' = IF config.fuzzing_enabled
                    THEN [rv_result EXCEPT !.fuzzing_result = "Some"]
                    ELSE rv_result
    /\ rv_pc' = "analyze"
    /\ UNCHANGED << config, orch_vars, cm_vars, fz_vars, unit_vars, execution_env, host_dirs, docker_containers,
                    cleanup_calls, remove_attempts, rv_execution >>

\* analyze_stderr on the sampled texts
StderrFindings(stderr) ==
    IF stderr = "segmentation fault"
    THEN << Finding("CrashProne", "Critical",
                  "Error Pattern Detected: segmentation fault|segfault", 8) >>
    ELSE << >>

\* analyze_performance_issues: the CPU and memory thresholds of the default
\* configuration (90 percent, 256 MB).
AnalyzePerformanceIssues(cpu, memory) ==
    (IF cpu > 90
     THEN << Finding("PerformanceIssue", "Medium", "High CPU Usage", 9) >>
     ELSE << >>)
    \o (IF memory > 256
        THEN << Finding("PerformanceIssue", "Medium", "High Memory Usage", 9) >>
        ELSE << >>)

\* analyze_execution_results: exit code, stderr, thresholds, violations
AnalyzeExecutionResults(execution, result, sec) ==
    AppendFindings(result,
        (IF execution.ok /\ execution.exit_code # 0
         THEN << Finding("RuntimeError", "High", "Non-zero Exit Code", 9) >>
         ELSE << >>)
        \o StderrFindings(execution.stderr)
        \o AnalyzePerformanceIssues(result.cpu_usage_percent, result.memory_usage_mb)
        \o ViolationFindings(CollectSecurityViolations(sec), 8))

\* Step 8: analyze_execution_results
RvAnalyze ==
    /\ rv_pc = "analyze"
    /\ RvStep("analyze")
    /\ rv_result' = AnalyzeExecutionResults(rv_execution, rv_result, config.security)
    /\ rv_pc' = "cleanup"
    /\ UNCHANGED << config, orch_vars, cm_vars, fz_vars, unit_vars, execution_env, host_dirs, docker_containers,
                    cleanup_calls, remove_attempts, rv_execution >>

\* Step 9: cleanup_environment when cleanup_after_validation is set; Ok(()).
RvCleanup ==
    /\ rv_pc = "cleanup"
    /\ RvStep("cleanup")
    /\ IF config.cleanup_after_validation
       THEN /\ docker_containers' = CleanupEnvironment(docker_containers, execution_env[RvId])
            /\ cleanup_calls' = [cleanup_calls EXCEPT ![RvId] = @ + 1]
       ELSE UNCHANGED << docker_containers, cleanup_calls >>
    /\ RvReturn("Ok")
    /\ UNCHANGED << config, orch_vars, cm_vars, fz_vars, unit_vars, remove_attempts, rv_execution >>

\* The timer of tokio::time::timeout wins while the future is suspended: the
\* future is dropped where it stands and validate takes the Err(_) arm.
RvTimeout ==
    /\ rv_pc \in RvSuspensionPoints
    /\ RvReturn("Elapsed")
    /\ UNCHANGED << config, orch_vars, cm_vars, fz_vars, unit_vars, docker_containers, cleanup_calls,
                    remove_attempts, rv_execution, rv_steps >>

NextValidate ==
    \/ Validate
    \/ RvCreateEnvironment
    \/ RvStartObservers
    \/ RvExecCreate
    \/ RvExecStart
    \/ RvExecRun
    \/ RvExecRemove
    \/ RvCollectResults
    \/ RvCollectMetrics
    \/ RvFuzzing
    \/ RvAnalyze
    \/ RvCleanup
    \/ RvTimeout

SpecValidate == Init /\ [][NextValidate]_vars

\* A process holding both a ValidationOrchestrator and a RuntimeValidator.
NextBoth == Next \/ NextValidate

SpecBoth == Init /\ [][NextBoth]_vars

-----------------------------------------------------------------------------
(* ContainerManager driven directly: create_execution_environment step by step,
   then execute_code and cleanup_environment on the environment it returned *)

\* TempDir with its Drop skipped (as after mem::forget): the directory stays.
DropTempDir_Forgotten(dirs, e) == dirs

\* Drop of a TempDir: the directory goes, with everything beneath it.
DropTempDir(dirs, e) == dirs \ {e}

\* `?` inside create_execution_environment after TempDir::new succeeded: the
\* local temp_dir is dropped and the error returned.
CmFail ==
    /\ host_dirs' = DropTempDir(host_dirs, CmId)
    /\ host_files' = IF CmId \in host_dirs' THEN host_files ELSE {}
    /\ cm_last' = "Err"
    /\ cm_pc' = "failed"

\* create_execution_environment, lines 111-112: TempDir::new()?
CmTempDirNew ==
    /\ cm_pc = "idle"
    /\ \E io_ok \in BOOLEAN :
          IF io_ok
          THEN /\ host_dirs' = host_dirs \cup {CmId}
               /\ cm_pc' = "working_dir"
               /\ UNCHANGED cm_last
          ELSE /\ cm_last' = "Err"
               /\ cm_pc' = "failed"
               /\ UNCHANGED host_dirs
    /\ UNCHANGED << config, orch_vars, rv_vars, fz_vars, unit_vars, execution_env, docker_containers,
                    cleanup_calls, remove_attempts, cm_written, host_files >>

\* lines 114-116: create_dir_all(working_dir)?
CmCreateWorkingDir ==
    /\ cm_pc = "working_dir"
    /\ \E io_ok \in BOOLEAN :
          IF io_ok
          THEN /\ cm_pc' = "files"
               /\ UNCHANGED << host_dirs, host_files, cm_last >>
          ELSE CmFail
    /\ UNCHANGED << config, orch_vars, rv_vars, fz_vars, unit_vars, execution_env, docker_containers,
                    cleanup_calls, remove_attempts, cm_written >>

\* lines 119-133, one iteration of the loop over codebase.files: the parent
\* directories, then the file.
CmWriteFile ==
    /\ cm_pc = "files"
    /\ cm_written < MaxFiles
    /\ \E parent_ok \in BOOLEAN, write_ok \in BOOLEAN :
          IF parent_ok /\ write_ok
          THEN /\ host_files' = host_files \cup {cm_written + 1}
               /\ cm_written' = cm_written + 1
               /\ UNCHANGED << host_dirs, cm_pc, cm_last >>
          ELSE /\ CmFail
               /\ UNCHANGED cm_written
    /\ UNCHANGED << config, orch_vars, rv_vars, fz_vars, unit_vars, execution_env, docker_containers,
                    cleanup_calls, remove_attempts >>

\* lines 135-145: the loop is over (the codebase had cm_written files); Ok(env).
CmEnvironmentCreated ==
    /\ cm_pc = "files"
    /\ execution_env' = MapInsert(execution_env, CmId, NewExecutionEnvironment(CmId))
    /\ cm_last' = "Ok"
    /\ cm_pc' = "ready"
    /\ UNCHANGED << config, orch_vars, rv_vars, fz_vars, unit_vars, host_dirs, docker_containers,
                    cleanup_calls, remove_attempts, cm_written, host_files >>

\* execute_code(env) on the environment.
CmExecuteCode ==
    /\ cm_pc = "ready"
    /\ \E outcome \in ExecOutcomes :
          LET r == ExecuteCode(docker_containers, CmId, outcome) IN
          /\ docker_containers' = r.containers
          /\ remove_attempts' = [remove_attempts EXCEPT ![CmId] = @ + r.removes]
          /\ cm_last' = IF r.ok THEN "Ok" ELSE "Err"
    /\ cm_pc' = "executed"
    /\ UNCHANGED << config, orch_vars, rv_vars, fz_vars, unit_vars, execution_env, host_dirs,
                    cleanup_calls, cm_written, host_files >>

\* cleanup_environment(env) on the environment; it returns Ok(()) on every path.
CmCleanupEnvironment ==
    /\ cm_pc \in {"ready", "executed"}
    /\ cleanup_calls[CmId] < MaxCleanupCalls
    /\ docker_containers' = CleanupEnvironment(docker_containers, execution_env[CmId])
    /\ cleanup_calls' = [cleanup_calls EXCEPT ![CmId] = @ + 1]
    /\ cm_last' = "Ok"
    /\ UNCHANGED << config, orch_vars, rv_vars, fz_vars, unit_vars, execution_env, host_dirs,
                    remove_attempts, cm_pc, cm_written, host_files >>

\* The caller drops the environment, and with it the TempDir.
CmDropEnvironment ==
    /\ cm_pc \in {"ready", "executed"}
    /\ execution_env' = MapRemove(execution_env, CmId)
    /\ host_dirs' = DropTempDir(host_dirs, CmId)
    /\ host_files' = IF CmId \in host_dirs' THEN host_files ELSE {}
    /\ cm_pc' = "dropped"
    /\ UNCHANGED << config, orch_vars, rv_vars, fz_vars, unit_vars, docker_containers, cleanup_calls,
                    remove_attempts, cm_last, cm_written >>

NextContainer ==
    \/ CmTempDirNew
    \/ CmCreateWorkingDir
    \/ CmWriteFile
    \/ CmEnvironmentCreated
    \/ CmExecuteCode
    \/ CmCleanupEnvironment
    \/ CmDropEnvironment

SpecContainer == Init /\ [][NextContainer]_vars

-----------------------------------------------------------------------------
(* FuzzingEngine: campaigns run one after the other on one engine *)

\* FuzzingEngine::new(config)
FuzzingEngineNew ==
    /\ fz_pc = "none"
    /\ \E iterations \in {0, MaxIterations}, coverage_guided \in BOOLEAN :
          fz_config' = [iterations |-> iterations, coverage_guided |-> coverage_guided]
    /\ coverage_map' = << >>
    /\ fz_pc' = "idle"
    /\ UNCHANGED << config, orch_vars, rv_vars, cm_vars, unit_vars, execution_env, host_dirs,
                    docker_containers, cleanup_calls, remove_attempts,
                    fz_i, fz_result, fz_runs, fz_executions >>

\* fuzz_code, lines 214-228: a fresh FuzzingResult.
FuzzCode ==
    /\ fz_pc = "idle"
    /\ fz_runs < MaxFuzzRuns
    /\ fz_result' = NewFuzzingResult
    /\ fz_i' = 0
    /\ fz_pc' = "loop"
    /\ fz_executions' = << >>
    /\ UNCHANGED << config, orch_vars, rv_vars, cm_vars, unit_vars, execution_env, host_dirs,
                    docker_containers, cleanup_calls, remove_attempts,
                    fz_config, coverage_map, fz_runs >>

\* fuzz_code, lines 231-291: one iteration on which the time limit has not been
\* reached.  execute_with_input draws the path and whether the run crashed.
FuzzIteration ==
    /\ fz_pc = "loop"
    /\ LoopRuns(fz_i, fz_config.iterations)
    /\ \E path \in Paths, crashed \in BOOLEAN :
          LET crash == AnalyzeExecution(crashed)
              unique == crash # << >> /\ IsUniqueCrash(crash[1], fz_result.crashes)
              interesting == fz_config.coverage_guided /\ CoverageChange(coverage_map, path) > 0
          IN
          /\ fz_result' =
                 [fz_result EXCEPT
                     !.total_executions = @ + 1,
                     !.crashes_found = IF crash # << >> THEN @ + 1 ELSE @,
                     !.unique_crashes = IF unique THEN @ + 1 ELSE @,
                     !.crashes = IF unique THEN Append(@, crash[1]) ELSE @,
                     !.interesting_inputs = IF interesting THEN Append(@, path) ELSE @]
          /\ coverage_map' = IF fz_config.coverage_guided
                             THEN UpdateCoverage(coverage_map, path)
                             ELSE coverage_map
          /\ fz_executions' = Append(fz_executions, [execution_path |-> path, crash |-> crash])
    /\ fz_i' = fz_i + 1
    /\ UNCHANGED << config, orch_vars, rv_vars, cm_vars, unit_vars, execution_env, host_dirs,
                    docker_containers, cleanup_calls, remove_attempts,
                    fz_pc, fz_config, fz_runs >>

\* fuzz_code, lines 232-235 and 293-306: the loop ends, by its range or by the
\* time limit, and the result takes the coverage of the engine's tracker.
FuzzReturn ==
    /\ fz_pc = "loop"
    /\ fz_result' = [fz_result EXCEPT
                        !.coverage_percentage = GetCoveragePercentage(coverage_map),
                        !.coverage_info = GetCoverageInfo(coverage_map)]
    /\ fz_runs' = fz_runs + 1
    /\ fz_pc' = "idle"
    /\ UNCHANGED << config, orch_vars, rv_vars, cm_vars, unit_vars, execution_env, host_dirs,
                    docker_containers, cleanup_calls, remove_attempts,
                    fz_config, coverage_map, fz_i, fz_executions >>

NextFuzzing ==
    \/ FuzzingEngineNew
    \/ FuzzCode
    \/ FuzzIteration
    \/ FuzzReturn

SpecFuzzing == Init /\ [][NextFuzzing]_vars

-----------------------------------------------------------------------------
(* execute_code on a given codebase, from detect_execution_command on, and the
   analysis of its ExecutionResult by RuntimeValidator::execute_validation *)

\* Sequences of at most n elements of S.
SeqsUpTo(S, n) == UNION {[1..k -> S] : k \in 0..n}

\* The codebases executed: every list of at most MaxCodebaseFiles paths.
Codebases == SeqsUpTo(FilePaths, MaxCodebaseFiles)

\* RuntimeConfig::default() as far as the model holds it.
DefaultConfig ==
    [cleanup_after_validation |-> TRUE, fuzzing_enabled |-> TRUE,
     security |-> DefaultSecurityConfig]

\* The container of an environment holding `codebase` is started.
InitDetect ==
    /\ config = DefaultConfig
    /\ ComponentsInit
    /\ codebase \in Codebases
    /\ dx_pc = "detect"
    /\ dx_command = NoCommand
    /\ dx_execution = "None"
    /\ dx_result = NewValidationResult
    /\ NoScoring
    /\ NoScan
    /\ NoSeries
    /\ NoSide

\* Exit codes inspect_exec may report for a command: the echo of the fallback
\* command ends with 0, any other program with 0 or 1.
ExitCodes(command) == IF command.words[1] = "sh" THEN {0} ELSE {0, 1}

\* execute_code, line 179: detect_execution_command(&env.codebase)?
DxDetect ==
    /\ dx_pc = "detect"
    /\ dx_command' = DetectExecutionCommand(codebase)
    /\ dx_pc' = "execute"
    /\ UNCHANGED << program_vars, side_vars, sc_vars, sn_vars, ts_vars,
                    codebase, dx_execution, dx_result >>

\* execute_code, lines 181-220: execute_command_in_container.  An Err of the
\* daemon gives exit code -1 and its text in stderr; Ok gives the exit code of
\* the exec (-1 when inspect_exec reports none) and the captured streams.
DxExecute ==
    /\ dx_pc = "execute"
    /\ \/ dx_execution' = [ok |-> TRUE, exit_code |-> -1, stderr |-> "Execution failed"]
       \/ \E exit_code \in ExitCodes(dx_command) \cup {-1}, stderr \in StderrSamples :
             /\ exit_code <= 0 => stderr = ""
             /\ dx_execution' = [ok |-> TRUE, exit_code |-> exit_code, stderr |-> stderr]
    /\ dx_pc' = "analyze"
    /\ UNCHANGED << program_vars, side_vars, sc_vars, sn_vars, ts_vars,
                    codebase, dx_command, dx_result >>

\* execute_validation, Step 8 and the Ok(()) that follows it; validate then sets
\* the status Completed.  Steps 5 to 7 push no finding and are left out: the
\* metrics analyzed are those of PerformanceMetrics::default().
DxAnalyze ==
    /\ dx_pc = "analyze"
    /\ dx_result' =
           FinishValidate(
               AnalyzeExecutionResults(dx_execution, dx_result, config.security), "Ok")
    /\ dx_pc' = "done"
    /\ UNCHANGED << program_vars, side_vars, sc_vars, sn_vars, ts_vars,
                    codebase, dx_command, dx_execution >>

NextDetect ==
    \/ DxDetect
    \/ DxExecute
    \/ DxAnalyze

SpecDetect == InitDetect /\ [][NextDetect]_vars

-----------------------------------------------------------------------------
(* SecurityMonitor: calculate_security_score and determine_risk_level on given
   lists of findings, as collect_results calls them *)

ViolationSeverity == {"Critical", "High", "Medium", "Low", "Info"}

VulnerabilitySeverity == {"Critical", "High", "Medium", "Low"}

SecretSeverity == {"Critical", "High", "Medium", "Low"}

\* Confidences of a secret, in hundredths: 0.0, that of get_findings, and 1.0.
SecretConfidences == {0, 85, 100}

\* The violations, vulnerabilities and secrets scored.
ViolationSamples ==
    {SecurityViolation("PolicyViolation", severity, "high", "Policy violation") :
        severity \in ViolationSeverity}

VulnerabilitySamples ==
    {Vulnerability("SqlInjection", severity, "database.go:45") :
        severity \in VulnerabilitySeverity}

SecretSamples ==
    {SecretFinding("ApiKey", severity, confidence, "config.go") :
        severity \in SecretSeverity, confidence \in SecretConfidences}

\* collect_results has collected three lists holding at most MaxSecurityFindings
\* findings together.
InitScore ==
    /\ config = DefaultConfig
    /\ ComponentsInit
    /\ NoExecution
    /\ \E a, b, c \in 0..MaxSecurityFindings :
          /\ a + b + c <= MaxSecurityFindings
          /\ sc_violations \in [1..a -> ViolationSamples]
          /\ sc_vulnerabilities \in [1..b -> VulnerabilitySamples]
          /\ sc_secrets \in [1..c -> SecretSamples]
    /\ sc_pc = "score"
    /\ sc_score = 0
    /\ sc_risk = "None"
    /\ NoScan
    /\ NoSeries
    /\ NoSide

\* collect_results, lines 384-386: calculate_security_score
ScCalculateSecurityScore ==
    /\ sc_pc = "score"
    /\ sc_score' = CalculateSecurityScore(sc_violations, sc_vulnerabilities, sc_secrets)
    /\ sc_pc' = "risk"
    /\ UNCHANGED << program_vars, side_vars, dx_vars, sn_vars, ts_vars,
                    sc_violations, sc_vulnerabilities, sc_secrets, sc_risk >>

\* collect_results, line 387: determine_risk_level
ScDetermineRiskLevel ==
    /\ sc_pc = "risk"
    /\ sc_risk' = DetermineRiskLevel(sc_score, sc_violations)
    /\ sc_pc' = "done"
    /\ UNCHANGED << program_vars, side_vars, dx_vars, sn_vars, ts_vars,
                    sc_violations, sc_vulnerabilities, sc_secrets, sc_score >>

NextScore ==
    \/ ScCalculateSecurityScore
    \/ ScDetermineRiskLevel

SpecScore == InitScore /\ [][NextScore]_vars

-----------------------------------------------------------------------------
(* SecurityMonitor: the static scans of start_monitoring and what collect_results
   reports of them *)

\* VulnerabilityScanner::new: the catalogue, pattern name to vulnerability type.
VulnerabilityDb == [sql_injection |-> "SqlInjection", command_injection |-> "CommandInjection"]

\* SecretsDetector::new: the catalogue, pattern name to secret type.
SecretPatterns == [api_key |-> "ApiKey", password |-> "Password", private_key |-> "PrivateKey"]

\* A CodeFile of a scanned codebase: its path and, for its content, the names of
\* the catalogue patterns whose regex matches it.
ScannedFile(path, content) == [path |-> path, content |-> content]

\* Regex::is_match(content)
IsMatch(pattern, content) == pattern \in content

\* The files scanned: three paths, each with every content over three patterns.
ScannedFiles ==
    {ScannedFile(path, content) :
        path \in {"database.go", "config.go", "app.py"},
        content \in SUBSET {"sql_injection", "command_injection", "api_key"}}

\* start_monitoring is called on an environment holding one of the codebases.
InitScan ==
    /\ config = DefaultConfig
    /\ ComponentsInit
    /\ NoExecution
    /\ NoScoring
    /\ sn_files \in SeqsUpTo(ScannedFiles, MaxScannedFiles)
    /\ sn_pc = "scan_vulnerabilities"
    /\ sn_i = 1
    /\ sn_matches = {}
    /\ sn_vulnerabilities = << >>
    /\ sn_secrets = << >>
    /\ NoSeries
    /\ NoSide

\* The matches a scan_file logs for a file: they are written to the debug log
\* and kept nowhere.
LoggedMatches(file, catalogue) ==
    {<< file.path, pattern >> : pattern \in {p \in DOMAIN catalogue : IsMatch(p, file.content)}}

\* scan_codebase_for_vulnerabilities: one file of the loop, or its end.
SnScanForVulnerabilities ==
    /\ sn_pc = "scan_vulnerabilities"
    /\ IF sn_i <= Len(sn_files)
       THEN /\ sn_matches' = sn_matches \cup LoggedMatches(sn_files[sn_i], VulnerabilityDb)
            /\ sn_i' = sn_i + 1
            /\ UNCHANGED sn_pc
       ELSE /\ sn_pc' = "scan_secrets"
            /\ sn_i' = 1
            /\ UNCHANGED sn_matches
    /\ UNCHANGED << program_vars, side_vars, dx_vars, sc_vars, ts_vars, sn_files, sn_vulnerabilities, sn_secrets >>

\* scan_for_secrets: one file of the loop, or its end.
SnScanForSecrets ==
    /\ sn_pc = "scan_secrets"
    /\ IF sn_i <= Len(sn_files)
       THEN /\ sn_matches' = sn_matches \cup LoggedMatches(sn_files[sn_i], SecretPatterns)
            /\ sn_i' = sn_i + 1
            /\ UNCHANGED sn_pc
       ELSE /\ sn_pc' = "collect"
            /\ sn_i' = 1
            /\ UNCHANGED sn_matches
    /\ UNCHANGED << program_vars, side_vars, dx_vars, sc_vars, ts_vars, sn_files, sn_vulnerabilities, sn_secrets >>

\* collect_results, lines 378-379: collect_vulnerabilities and collect_secrets
\* return the findings of get_findings.
SnCollectResults ==
    /\ sn_pc = "collect"
    /\ sn_vulnerabilities' = GetVulnerabilityFindings
    /\ sn_secrets' = GetSecretFindings
    /\ sn_pc' = "done"
    /\ UNCHANGED << program_vars, side_vars, dx_vars, sc_vars, ts_vars, sn_files, sn_i, sn_matches >>

NextScan ==
    \/ SnScanForVulnerabilities
    \/ SnScanForSecrets
    \/ SnCollectResults

SpecScan == InitScan /\ [][NextScan]_vars

-----------------------------------------------------------------------------
(* MetricsCollector: the time series of TimeSeriesBuffer *)

\* A TimeSeriesPoint; the timestamp is the number of the point in its series.
TimeSeriesPoint(timestamp, value) == [timestamp |-> timestamp, value |-> value]

\* add_* with the newest point dropped on overflow (pop_back).
AddPoint_DropsNewest(series, point, max_points) ==
    LET pushed == Append(series, point)
    IN IF Len(pushed) > max_points THEN SubSeq(pushed, 1, Len(pushed) - 1) ELSE pushed

\* add_validation_time, add_cpu_usage, add_memory_usage, add_error_rate: push_back,
\* then pop_front if the series is longer than max_points.
AddPoint(series, point, max_points) ==
    LET pushed == Append(series, point)
    IN IF Len(pushed) > max_points THEN Tail(pushed) ELSE pushed

\* The point a series is handed next.
NextPoint(name, value) == TimeSeriesPoint(Len(ts_recorded[name]) + 1, value)

\* Validation durations recorded (ms).
DurationSamples == {10, 20}

\* record_validation, lines 298-301: add_validation_time
TsRecordValidation ==
    /\ Len(ts_recorded.validation_times) < MaxRecords
    /\ \E duration \in DurationSamples :
          LET point == NextPoint("validation_times", duration) IN
          /\ time_series_buffer' =
                 [time_series_buffer EXCEPT
                     !.validation_times = AddPoint(@, point, time_series_buffer.max_points)]
          /\ ts_recorded' = [ts_recorded EXCEPT !.validation_times = Append(@, point)]
    /\ UNCHANGED << program_vars, side_vars, dx_vars, sc_vars, sn_vars >>

\* record_performance, lines 330-334: add_cpu_usage and add_memory_usage
TsRecordPerformance ==
    /\ Len(ts_recorded.cpu_usage) < MaxRecords
    /\ \E cpu \in CpuSamples, memory \in MemorySamples :
          LET cpu_point == NextPoint("cpu_usage", cpu)
              memory_point == NextPoint("memory_usage", memory)
          IN
          /\ time_series_buffer' =
                 [time_series_buffer EXCEPT
                     !.cpu_usage = AddPoint(@, cpu_point, time_series_buffer.max_points),
                     !.memory_usage = AddPoint(@, memory_point, time_series_buffer.max_points)]
          /\ ts_recorded' = [ts_recorded EXCEPT !.cpu_usage = Append(@, cpu_point),
                                                !.memory_usage = Append(@, memory_point)]
    /\ UNCHANGED << program_vars, side_vars, dx_vars, sc_vars, sn_vars >>

\* record_error, lines 399-405: the error rate is total_errors / 60; the series
\* holds total_errors.
TsRecordError ==
    /\ Len(ts_recorded.error_rates) < MaxRecords
    /\ LET point == NextPoint("error_rates", Len(ts_recorded.error_rates) + 1) IN
          /\ time_series_buffer' =
                 [time_series_buffer EXCEPT
                     !.error_rates = AddPoint(@, point, time_series_buffer.max_points)]
          /\ ts_recorded' = [ts_recorded EXCEPT !.error_rates = Append(@, point)]
    /\ UNCHANGED << program_vars, side_vars, dx_vars, sc_vars, sn_vars >>

NextSeries ==
    \/ TsRecordValidation
    \/ TsRecordPerformance
    \/ TsRecordError

SpecSeries == Init /\ [][NextSeries]_vars

-----------------------------------------------------------------------------
(* ContainerManager::create_container under every container configuration *)

\* The container configurations a manager is built with.
ContainerConfigs ==
    [memory_limit_mb : {256, 512}, cpu_limit_tenths : {10},
     network_isolation : BOOLEAN, readonly_filesystem : BOOLEAN,
     temp_dir_size_mb : {64, 100}]

\* The Mount of create_container: the working directory of the environment,
\* bound at /workspace.
Mount(e) ==
    [target |-> "/workspace", source |-> e, typ |-> "BIND", read_only |-> FALSE]

\* The HostConfig of create_container (memory in bytes, cpu in nano-cpus).
HostConfig(cfg, e) ==
    [memory |-> cfg.memory_limit_mb * 1024 * 1024,
     nano_cpus |-> cfg.cpu_limit_tenths * 100000000,
     network_mode |-> IF cfg.network_isolation THEN "none" ELSE "bridge",
     mounts |-> << Mount(e) >>,
     read_only_root_fs |-> cfg.readonly_filesystem,
     tmpfs |-> [target |-> "/tmp", size_mb |-> cfg.temp_dir_size_mb]]

\* The Config handed to Docker::create_container.
ContainerCreateConfig(cfg, e) ==
    [working_dir |-> "/workspace", host_config |-> HostConfig(cfg, e)]

\* A manager of any container configuration that has created nothing yet.
InitCreate ==
    /\ config = DefaultConfig
    /\ ComponentsInit
    /\ NoExecution
    /\ NoScoring
    /\ NoScan
    /\ NoSeries
    /\ container_config \in ContainerConfigs
    /\ cc_requests = << >>
    /\ cc_last = "None"
    /\ NoGeneration
    /\ NoOperation
    /\ NoMonitoring

\* create_container for environment e: the daemon creates the container as
\* configured, or the call fails and nothing is created.
CcCreateContainer(e) ==
    /\ e \notin DOMAIN cc_requests
    /\ \/ /\ cc_requests' = MapInsert(cc_requests, e, ContainerCreateConfig(container_config, e))
          /\ cc_last' = "Ok"
       \/ /\ cc_last' = "Err"
          /\ UNCHANGED cc_requests
    /\ UNCHANGED << program_vars, dx_vars, sc_vars, sn_vars, ts_vars, mon_vars, gr_vars, lk_vars,
                    vm_vars, container_config >>

\* execute_code, lines 198-209: remove_container with force.
CcRemoveContainer(e) ==
    /\ e \in DOMAIN cc_requests
    /\ cc_requests' = MapRemove(cc_requests, e)
    /\ cc_last' = "None"
    /\ UNCHANGED << program_vars, dx_vars, sc_vars, sn_vars, ts_vars, mon_vars, gr_vars, lk_vars,
                    vm_vars, container_config >>

NextCreate ==
    \/ \E e \in 1..MaxContainers : CcCreateContainer(e)
    \/ \E e \in 1..MaxContainers : CcRemoveContainer(e)

SpecCreate == InitCreate /\ [][NextCreate]_vars

-----------------------------------------------------------------------------
(* GrammarInputGenerator: generate_input, one call of expand_symbol at a time *)

\* GrammarInputGenerator::new: the production table.  A production is held as
\* the parts split(' ') gives; one part means the production has no space.
GrammarRules ==
    [start |-> << << "expr" >> >>,
     expr |-> << << "num" >>, << "expr", "+", "expr" >>, << "expr", "-", "expr" >>,
                 << "(expr)" >> >>,
     num |-> << << "1" >>, << "2" >>, << "3" >> >>]

\* grammar_rules.contains_key
ContainsKey(symbol) == symbol \in DOMAIN GrammarRules

\* The depth beyond which expand_symbol expands no further.
DepthCap == 10

\* What expand_symbol returns for a symbol entered beyond the cap, had it
\* returned the symbol itself.
CappedExpansion_Symbol(symbol) == symbol

\* expand_symbol, lines 549-551: what a call entered beyond the cap returns.
CappedExpansion(symbol) == "1"

\* A call of expand_symbol.
Call(symbol, depth) == [symbol |-> symbol, depth |-> depth]

\* A call waiting for the call it made: its depth and the parts of its
\* production still to be looked at.
Frame(depth, parts) == [depth |-> depth, parts |-> parts]

\* Index of the first part that is a key of the table, 0 if none is.
FirstKey(parts) ==
    LET keys == {i \in 1..Len(parts) : ContainsKey(parts[i])}
    IN IF keys = {} THEN 0 ELSE CHOOSE i \in keys : \A j \in keys : i <= j

\* expand_symbol, lines 558-567, from where a call at `depth` has `parts` of its
\* production left: the parts that are no key are pushed to the result, the first
\* key is expanded one level deeper; with no key left the call returns to its
\* caller, which goes on in the same way.  Gives the stack and the next call,
\* NoCall once the outermost call has returned.
RECURSIVE Resume(_, _, _)
Resume(stack, depth, parts) ==
    LET k == FirstKey(parts)
    IN IF k # 0
       THEN [stack |-> Append(stack, Frame(depth, SubSeq(parts, k + 1, Len(parts)))),
             call |-> Call(parts[k], depth + 1)]
       ELSE IF stack = << >>
       THEN [stack |-> << >>, call |-> NoCall]
       ELSE LET caller == stack[Len(stack)]
            IN Resume(SubSeq(stack, 1, Len(stack) - 1), caller.depth, caller.parts)

\* A generator the caller has just built.
InitGrammar ==
    /\ config = DefaultConfig
    /\ ComponentsInit
    /\ NoExecution
    /\ NoScoring
    /\ NoScan
    /\ NoSeries
    /\ NoCreation
    /\ NoOperation
    /\ NoMonitoring
    /\ gr_pc = "idle"
    /\ gr_call = NoCall
    /\ gr_stack = << >>
    /\ gr_capped = {}

\* generate_input (and mutate_input, which calls it): expand_symbol("start", 0).
GenerateInput ==
    /\ gr_pc \in {"idle", "returned"}
    /\ gr_pc' = "expanding"
    /\ gr_call' = Call("start", 0)
    /\ gr_stack' = << >>
    /\ gr_capped' = {}
    /\ UNCHANGED << program_vars, dx_vars, sc_vars, sn_vars, ts_vars, mon_vars, cc_vars, lk_vars,
                    vm_vars >>

\* The call gr_call returns without expanding; its callers go on.
GrReturn ==
    LET next == Resume(gr_stack, gr_call.depth, << >>)
    IN /\ gr_stack' = next.stack
       /\ gr_call' = next.call
       /\ gr_pc' = IF next.call = NoCall THEN "returned" ELSE "expanding"

\* expand_symbol for the call gr_call, with the production the random number
\* generator picks, up to the next call of expand_symbol or the return of
\* generate_input.
ExpandSymbol ==
    /\ gr_pc = "expanding"
    /\ IF gr_call.depth > DepthCap
       THEN /\ gr_capped' = gr_capped \cup {CappedExpansion(gr_call.symbol)}
            /\ GrReturn
       ELSE IF ContainsKey(gr_call.symbol)
       THEN \E n \in 1..Len(GrammarRules[gr_call.symbol]) :
              LET production == GrammarRules[gr_call.symbol][n]
                  next == Resume(gr_stack, gr_call.depth, production)
              IN /\ IF Len(production) > 1 \/ ContainsKey(production[1])
                    THEN /\ gr_stack' = next.stack
                         /\ gr_call' = next.call
                         /\ gr_pc' = IF next.call = NoCall THEN "returned" ELSE "expanding"
                    ELSE GrReturn
                 /\ UNCHANGED gr_capped
       ELSE /\ GrReturn
            /\ UNCHANGED gr_capped
    /\ UNCHANGED << program_vars, dx_vars, sc_vars, sn_vars, ts_vars, mon_vars, cc_vars, lk_vars,
                    vm_vars >>

NextGrammar ==
    \/ GenerateInput
    \/ ExpandSymbol

\* Every call of generate_input runs on: nothing but itself can hold it up.
SpecGrammar == InitGrammar /\ [][NextGrammar]_vars /\ WF_vars(ExpandSymbol)

-----------------------------------------------------------------------------
(* MetricsCollector called by concurrent tasks: the locks each operation takes *)

\* The operations of MetricsCollector.
Operations ==
    {"record_validation", "record_performance", "record_container_event",
     "record_error", "update_system_status", "get_metrics_summary",
     "export_prometheus", "get_realtime_metrics"}

\* read().await / write().await: the task joins the waiters of the lock, then
\* holds the guard once it is granted.
Guard(lock, mode) == << << "request", lock, mode >>, << "acquire", lock, mode >> >>

\* read().await.clone(): the guard is a temporary, dropped within the statement.
Temporary(lock, mode) == << << "request", lock, mode >>, << "peek", lock, mode >> >>

\* export_prometheus and get_realtime_metrics: three read guards held to the end.
ReadAll ==
    Guard("validation_metrics", "read") \o Guard("performance_metrics", "read")
        \o Guard("system_metrics", "read") \o << << "return" >> >>

\* record_validation reading the validation metrics back through the lock, for
\* its debug line, while it holds the write guard.
RecordValidationPlan_ReadsBack ==
    Guard("validation_metrics", "write")
        \o << << "update", "total_validations" >>, << "update", "outcome" >>,
              << "update", "quality_score_distribution" >>,
              << "section", "time_series_buffer" >> >>
        \o Temporary("validation_metrics", "read") \o << << "return" >> >>

\* record_validation: the write guard, the three updates made under it, the
\* time series block, the return.
RecordValidationPlan ==
    Guard("validation_metrics", "write")
        \o << << "update", "total_validations" >>, << "update", "outcome" >>,
              << "update", "quality_score_distribution" >>,
              << "section", "time_series_buffer" >>, << "return" >> >>

\* The lock operations of each operation of MetricsCollector, in program order.
\* A guard lives to the end of the function ("return") unless it is a temporary;
\* the time series mutex is locked and unlocked within one block ("section").
LockPlan(op) ==
    CASE op = "record_validation" -> RecordValidationPlan
      [] op = "record_performance" ->
             Guard("performance_metrics", "write")
                 \o << << "section", "time_series_buffer" >>, << "return" >> >>
      [] op = "record_container_event" ->
             Guard("performance_metrics", "write") \o << << "return" >> >>
      [] op = "record_error" ->
             << << "lock", "error_metrics" >>, << "section", "time_series_buffer" >>,
                << "return" >> >>
      [] op = "update_system_status" ->
             Guard("system_metrics", "write") \o << << "return" >> >>
      [] op = "get_metrics_summary" ->
             Temporary("validation_metrics", "read")
                 \o Temporary("performance_metrics", "read")
                 \o Temporary("system_metrics", "read")
                 \o << << "section", "error_metrics" >>, << "return" >> >>
      [] op = "export_prometheus" -> ReadAll
      [] op = "get_realtime_metrics" -> ReadAll

\* The step task t is about to take.
NextLockStep(t) == LockPlan(op_pc[t].op)[op_pc[t].i]

\* tokio RwLock: the waiters are served in the order they came; a reader is
\* granted when no writer holds the lock, a writer when nobody holds it.
Grantable(lock, t, mode) ==
    /\ lock.waiters # << >>
    /\ lock.waiters[1] = t
    /\ lock.writer = 0
    /\ mode = "write" => lock.readers = {}

\* The lock once its first waiter holds the guard.
Granted(lock, t, mode) ==
    IF mode = "write"
    THEN [lock EXCEPT !.writer = t, !.waiters = Tail(@)]
    ELSE [lock EXCEPT !.readers = @ \cup {t}, !.waiters = Tail(@)]

\* Drop of the guards task t holds.
Released(lock, t) ==
    [lock EXCEPT !.readers = @ \ {t}, !.writer = IF @ = t THEN 0 ELSE @]

\* Task t can take its next step: it is not blocked on a lock.
CanStep(t) ==
    /\ op_pc[t] # Idle
    /\ LET step == NextLockStep(t)
       IN CASE step[1] \in {"acquire", "peek"} -> Grantable(rw_locks[step[2]], t, step[3])
            [] step[1] \in {"lock", "section"} -> mutexes[step[2]] = 0
            [] OTHER -> TRUE

\* The locks after the next step of task t.
LockStep(t) ==
    LET step == NextLockStep(t)
    IN /\ CanStep(t)
       /\ op_pc' = [op_pc EXCEPT ![t] = IF step[1] = "return" THEN Idle
                                        ELSE [@ EXCEPT !.i = @ + 1]]
       /\ rw_locks' =
              CASE step[1] = "request" ->
                       [rw_locks EXCEPT ![step[2]].waiters = Append(@, t)]
                [] step[1] = "acquire" ->
                       [rw_locks EXCEPT ![step[2]] = Granted(@, t, step[3])]
                [] step[1] = "peek" ->
                       [rw_locks EXCEPT ![step[2]].waiters = Tail(@)]
                [] step[1] = "return" ->
                       [l \in RwLocks |-> Released(rw_locks[l], t)]
                [] OTHER -> rw_locks
       /\ mutexes' =
              CASE step[1] = "lock" -> [mutexes EXCEPT ![step[2]] = t]
                [] step[1] = "return" ->
                       [m \in Mutexes |-> IF mutexes[m] = t THEN 0 ELSE mutexes[m]]
                [] OTHER -> mutexes

\* Task t calls an operation.
LkCall(t, op) ==
    /\ op_pc[t] = Idle
    /\ op_pc' = [op_pc EXCEPT ![t] = [op |-> op, i |-> 1]]
    /\ UNCHANGED << program_vars, dx_vars, sc_vars, sn_vars, ts_vars, mon_vars, cc_vars, gr_vars,
                    vm_vars, rw_locks, mutexes >>

\* Task t goes on in its operation.
LkStep(t) ==
    /\ LockStep(t)
    /\ UNCHANGED << program_vars, dx_vars, sc_vars, sn_vars, ts_vars, mon_vars, cc_vars, gr_vars,
                    vm_vars >>

InitLocks ==
    /\ config = DefaultConfig
    /\ ComponentsInit
    /\ NoExecution
    /\ NoScoring
    /\ NoScan
    /\ NoSeries
    /\ NoSide

NextLocks ==
    \/ \E t \in Tasks, op \in Operations : LkCall(t, op)
    \/ \E t \in Tasks : LkStep(t)

\* The values the operations keep are left out here: they change no lock.
\* A task in an operation that can step again and again does step: the tokio
\* scheduler polls a woken task, and a thread blocked on a std Mutex that is
\* freed again and again gets it.
SpecLocks == InitLocks /\ [][NextLocks]_vars /\ \A t \in Tasks : SF_vars(LkStep(t))

-----------------------------------------------------------------------------
(* record_validation and the snapshots of get_metrics_summary, concurrently *)

\* The two tasks that record validations and take snapshots.
Recorders == {t \in Tasks : t <= 2}

\* Quality scores recorded, in thousandths: the lowest bucket, a middle one, 100.
ScoreSamples == {9999, 55000, 100000}

\* update_score_distribution without .min(9) on the bucket index.
UpdateScoreDistribution_Unclamped(histogram, score) ==
    LET bucket_index == score \div 10000
        buckets == IF Len(histogram) # 10 THEN [i \in 1..10 |-> 0] ELSE histogram
    IN [i \in 1..10 |-> IF i = bucket_index + 1 THEN buckets[i] + 1 ELSE buckets[i]]

\* update_score_distribution: the counts of score_histogram (bucket i of the
\* Vec is element i + 1 here).
UpdateScoreDistribution(histogram, score) ==
    LET floor == score \div 10000
        bucket_index == IF floor < 9 THEN floor ELSE 9
        buckets == IF Len(histogram) # 10 THEN [i \in 1..10 |-> 0] ELSE histogram
    IN [i \in 1..10 |-> IF i = bucket_index + 1 THEN buckets[i] + 1 ELSE buckets[i]]

\* The record_validation calls that have not counted themselves yet.
Uncounted == {t \in Tasks : op_pc[t].op = "record_validation" /\ op_pc[t].i <= 3}

\* Task t calls record_validation or get_metrics_summary.
RcCall(t, op) ==
    /\ op = "record_validation" =>
           validation_metrics.total_validations + Cardinality(Uncounted) < MaxRecords
    /\ LkCall(t, op)

\* Task t goes on in its operation: the lock operation, and what the step does
\* to the validation metrics.  The arguments of record_validation are picked
\* where they are used.
RcStep(t) ==
    LET step == NextLockStep(t)
    IN /\ LockStep(t)
       /\ CASE step = << "update", "total_validations" >> ->
                   validation_metrics' =
                       [validation_metrics EXCEPT !.total_validations = @ + 1]
            [] step = << "update", "outcome" >> ->
                   \E success \in BOOLEAN :
                       validation_metrics' =
                           IF success
                           THEN [validation_metrics EXCEPT !.successful_validations = @ + 1]
                           ELSE [validation_metrics EXCEPT !.failed_validations = @ + 1]
            [] step = << "update", "quality_score_distribution" >> ->
                   \E quality_score \in ScoreSamples :
                       validation_metrics' =
                           [validation_metrics EXCEPT
                               !.score_histogram = UpdateScoreDistribution(@, quality_score)]
            [] OTHER -> UNCHANGED validation_metrics
       /\ vm_snapshot' = IF step = << "peek", "validation_metrics", "read" >>
                         THEN validation_metrics
                         ELSE vm_snapshot
       /\ UNCHANGED << program_vars, dx_vars, sc_vars, sn_vars, ts_vars, mon_vars, cc_vars, gr_vars >>

NextRecord ==
    \/ \E t \in Recorders, op \in {"record_validation", "get_metrics_summary"} : RcCall(t, op)
    \/ \E t \in Recorders : RcStep(t)

SpecRecord == InitLocks /\ [][NextRecord]_vars

-----------------------------------------------------------------------------
(* SecurityMonitor under every monitoring configuration *)

\* The security configurations a monitor is built with: every choice of the
\* three monitoring flags, with no, one or MaxBlockedSyscalls blocked syscalls,
\* the external network allowed or not, and no or one sensitive file.
MonitorConfigs ==
    [enable_syscall_monitoring : BOOLEAN,
     enable_network_monitoring : BOOLEAN,
     enable_file_monitoring : BOOLEAN,
     blocked_syscalls : {{}, 1..1, 1..MaxBlockedSyscalls},
     allowed_networks : {{"127.0.0.1"}, {"0.0.0.0"}},
     sensitive_files : {<< >>, << "/etc/passwd" >>}]

\* SecurityMonitor::new(config)
InitMonitor ==
    /\ config = DefaultConfig
    /\ ComponentsInit
    /\ NoExecution
    /\ NoScoring
    /\ NoScan
    /\ NoSeries
    /\ NoCreation
    /\ NoGeneration
    /\ NoOperation
    /\ mon_config \in MonitorConfigs
    /\ mon_pc = "new"
    /\ mon_violations = << >>

\* start_monitoring: the flags are only logged.
MonStartMonitoring ==
    /\ mon_pc = "new"
    /\ mon_pc' = "monitoring"
    /\ UNCHANGED << program_vars, dx_vars, sc_vars, sn_vars, ts_vars, cc_vars, gr_vars,
                    lk_vars, vm_vars, mon_config, mon_violations >>

\* collect_results, line 377: collect_security_violations
MonCollectResults ==
    /\ mon_pc = "monitoring"
    /\ mon_violations' = CollectSecurityViolations(mon_config)
    /\ mon_pc' = "collected"
    /\ UNCHANGED << program_vars, dx_vars, sc_vars, sn_vars, ts_vars, cc_vars, gr_vars,
                    lk_vars, vm_vars, mon_config >>

NextMonitor ==
    \/ MonStartMonitoring
    \/ MonCollectResults

SpecMonitor == InitMonitor /\ [][NextMonitor]_vars

-----------------------------------------------------------------------------
(* Properties *)

\* execute_validation of run id has returned.
RunEnded(id) ==
    \/ pc[id] = "done"
    \/ pc[id] = "mark_failed" /\ pipeline_result[id] # "None"

\* Run id got past create_execution_environment (its pipeline has a result).
PassedEnvironmentSetup(id) == pipeline_result[id] # "None"

\* C1 as stated: every run that got past create_execution_environment has invoked
\* cleanup_environment exactly once when it ends, whatever cleanup_after_validation is.
C1_CleanupExactlyOnce ==
    \A id \in Ids :
        /\ cleanup_calls[id] <= 1
        /\ (RunEnded(id) /\ PassedEnvironmentSetup(id)) => cleanup_calls[id] = 1

\* C1 (amended): a run of the orchestrator that got past create_execution_environment
\* has invoked cleanup_environment exactly once when it ends if
\* cleanup_after_validation is set, and never if it is not set; this holds after
\* a successful pipeline, after a failed phase and after a cancellation.
C1_CleanupOnceWhenConfigured ==
    \A id \in Ids :
        /\ cleanup_calls[id] <= 1
        /\ (RunEnded(id) /\ PassedEnvironmentSetup(id)) =>
               cleanup_calls[id] = IF config.cleanup_after_validation THEN 1 ELSE 0

\* A run whose pipeline failed has ended with its single cleanup done.
C1_Witness ==
    \E id \in Ids :
        /\ pc[id] = "done"
        /\ pipeline_result[id] = "Err"
        /\ config.cleanup_after_validation
        /\ cleanup_calls[id] = 1

\* C2: once a run that entered EnvironmentSetup has ended (its result carries a
\* terminal status), neither its workspace directory nor a container created for it
\* exists.
C2_NoResourcesAfterTerminal ==
    \A id \in Ids :
        (RunEnded(id) /\ PassedEnvironmentSetup(id)) =>
            /\ validation_result[id].status \in TerminalStatus
            /\ id \notin host_dirs
            /\ id \notin docker_containers

\* C3: the session registry holds no session whose status is terminal.
C3_NoTerminalSessionRegistered ==
    \A s \in ListActiveValidations : s.status \notin TerminalStatus

\* The edges of Pending -> Running -> {Completed, Failed, Timeout, Cancelled}.
StatusEdges == {<< "Pending", "Running" >>} \cup ({"Running"} \X TerminalStatus)

\* C4: the status of a registered session only changes along
\* Pending -> Running -> {Completed, Failed, Timeout, Cancelled}; a terminal status
\* is never changed again.
C4_StatusTransitions ==
    [][\A id \in (DOMAIN active_validations) \cap (DOMAIN active_validations') :
          \/ active_validations'[id].status = active_validations[id].status
          \/ << active_validations[id].status, active_validations'[id].status >> \in StatusEdges
      ]_vars

\* The session of id is registered with status Cancelled.
Cancelled(id) ==
    /\ id \in DOMAIN active_validations
    /\ active_validations[id].status = "Cancelled"

\* C5: once a validation is cancelled its pipeline starts no further phase and its
\* result does not become Completed.
C5_CancelStopsPipeline ==
    [][\A id \in Ids :
          Cancelled(id) =>
              /\ (pc'[id] = "phase_body" => pc[id] = "phase_body")
              /\ validation_result'[id].status # "Completed"
      ]_vars

\* Findings of a result titled "Validation Timeout".
TimeoutFindings(result) ==
    {i \in 1..Len(result.findings) : result.findings[i].title = "Validation Timeout"}

\* The step in which the timer won: validate ends without a step of
\* execute_validation having run.
TimerExpires == rv_pc # "done" /\ rv_pc' = "done" /\ rv_steps' = rv_steps

\* C6: when the timer expires during validate the result has status Timeout and
\* exactly one finding titled "Validation Timeout", of severity High, and no step
\* of execute_validation runs afterwards.
C6_TimeoutResult ==
    /\ [][TimerExpires => rv_result'.status = "Timeout"]_vars
    /\ [](rv_result.status = "Timeout" =>
            /\ Cardinality(TimeoutFindings(rv_result)) = 1
            /\ \A i \in TimeoutFindings(rv_result) : rv_result.findings[i].severity = "High")
    /\ [][rv_result.status = "Timeout" => rv_steps' = rv_steps]_vars

\* The timer expired while the container of the run was up.
C6_Witness ==
    /\ rv_result.status = "Timeout"
    /\ SeqContains(rv_steps, "exec_run")
    /\ Len(rv_result.findings) = 1

\* The environment of validate was created (Step 2 follows Step 1 at once).
RvEnvironmentCreated == SeqContains(rv_steps, "start_monitoring")

\* C7: when validate ends by timeout after the environment was created,
\* cleanup_environment has run and neither the container nor the workspace is left
\* (stated for the configurations that ask for the cleanup).
C7_CleanupOnTimeout ==
    (rv_result.status = "Timeout" /\ RvEnvironmentCreated
        /\ config.cleanup_after_validation) =>
        /\ cleanup_calls[RvId] = 1
        /\ RvId \notin docker_containers
        /\ RvId \notin host_dirs

\* Position of a phase in the fixed order of the pipeline.
PhaseRank(phase) ==
    CASE phase = "Initialization" -> 1
      [] phase = "EnvironmentSetup" -> 2
      [] phase = "StaticAnalysis" -> 2
      [] phase = "SecurityScanning" -> 3
      [] phase = "RuntimeExecution" -> 4
      [] phase = "PerformanceProfiling" -> 5
      [] phase = "FuzzTesting" -> 6
      [] phase = "ResultAggregation" -> 7
      [] phase = "Cleanup" -> 8
      [] phase = "Completed" -> 9

\* C8: current_phase never moves back in the fixed order, and cleanup_environment
\* is invoked while the phase is Cleanup.
C8_PhaseOrder ==
    [][\A id \in (DOMAIN active_validations) \cap (DOMAIN active_validations') :
          /\ PhaseRank(active_validations'[id].current_phase)
                 >= PhaseRank(active_validations[id].current_phase)
          /\ cleanup_calls'[id] > cleanup_calls[id] =>
                 active_validations[id].current_phase = "Cleanup"
      ]_vars

\* C9: a phase error does not abort the pipeline: when execute_pipeline is over,
\* every phase up to ResultAggregation and Cleanup has been executed.
C9_LaterPhasesStillRun ==
    \A id \in Ids :
        pc[id] = "post_pipeline" => executed_phases[id] = PipelinePhases

\* C10: a container create/start/exec failure of execute_code yields a RuntimeError
\* finding in the result and no error returned from the pipeline.
C10_ErrorsBecomeFindings ==
    \A id \in Ids :
        execution_outcome[id] \in {"create_failed", "start_failed", "exec_failed"} =>
            /\ pipeline_result[id] # "Err"
            /\ \E i \in 1..Len(validation_result[id].findings) :
                   validation_result[id].findings[i].finding_type = "RuntimeError"

\* The phase body a run executed last.
LastExecutedPhase(id) == executed_phases[id][Len(executed_phases[id])]

\* The body of a phase of run id has just returned: the next phase is not begun.
PhaseJustReturned(id) ==
    /\ executed_phases[id] # << >>
    /\ pc[id] \in {"phase_update", "post_pipeline"}

\* C11: no timed phase runs past its cap (SecurityScanning 60 s, RuntimeExecution
\* 120 s, PerformanceProfiling 90 s, FuzzTesting 180 s): a phase still running when
\* its cap elapses is abandoned, so no phase body returns after more than its cap.
C11_PhaseCapsEnforced ==
    \A id \in Ids :
        (PhaseJustReturned(id) /\ LastExecutedPhase(id) \in DOMAIN TimeoutPerPhase) =>
            phase_seconds[id] <= TimeoutPerPhase[LastExecutedPhase(id)]

\* execute_validation of run id returned Ok(validation_result).
OrchestratorEmitted(id) == pc[id] = "done" /\ pipeline_result[id] = "Ok"

\* validate returned Ok(result).
ValidateEmitted == rv_pc = "done"

\* C12: the result validate returns and the result execute_validation returns carry
\* a status among Completed, Failed, Timeout, Cancelled, never Pending or Running.
C12_EmittedStatusTerminal ==
    /\ ValidateEmitted => rv_result.status \in TerminalStatus
    /\ \A id \in Ids : OrchestratorEmitted(id) => validation_result[id].status \in TerminalStatus

\* Both entry points have emitted a result, validate's after the timer expired.
C12_Witness ==
    /\ ValidateEmitted
    /\ rv_result.status = "Timeout"
    /\ \E id \in Ids : OrchestratorEmitted(id) /\ validation_result[id].status = "Completed"

\* C13: a result validate returns with a status other than Completed (Failed or
\* Timeout) has at least one finding.
C13_FailureHasFindings ==
    (ValidateEmitted /\ rv_result.status # "Completed") => Len(rv_result.findings) > 0

\* validate returned Failed because create_execution_environment failed: the only
\* finding is the one of the Err(e) arm.
C13_Witness ==
    /\ ValidateEmitted
    /\ rv_result.status = "Failed"
    /\ rv_steps = << "create_env" >>
    /\ Len(rv_result.findings) = 1

\* C14: the overall_score of every emitted result lies in [0, 100] (held in
\* thousandths), whatever the findings, the CPU and memory figures and the security
\* score, the default security result of a run that never collected one included.
C14_ScoreInRange ==
    /\ ValidateEmitted => rv_result.overall_score \in 0..100000
    /\ \A id \in Ids :
           OrchestratorEmitted(id) => validation_result[id].overall_score \in 0..100000

\* validate returned a Completed result whose findings cost more than the score
\* has: overall_score is 0.
C14_Witness ==
    /\ ValidateEmitted
    /\ rv_result.status = "Completed"
    /\ FindingDeductions(rv_result.findings) > 200000
    /\ rv_result.overall_score = 0

\* The weighted score as the documentation words it, in thousandths:
\* 0.30 security + 0.20 performance + 0.25 functionality + 0.15 quality
\* + 0.10 reliability, clamped to [0, 100].
DocumentedScore(result) ==
    LET AtLeast0(x) == IF x > 0 THEN x ELSE 0
        Count(type) ==
            Cardinality({i \in DOMAIN result.findings : result.findings[i].finding_type = type})
        performance ==
            (AtLeast0(100000 - result.cpu_usage_percent * 1000)
             + AtLeast0(100000 - result.memory_usage_mb * 100)) \div 2
        functionality == AtLeast0(100000 - 20000 * Count("RuntimeError"))
        quality == AtLeast0(100000 - 5000 * Len(result.findings))
        reliability == AtLeast0(100000 - 25000 * Count("CrashProne"))
        weighted == (30 * result.security_score + 20 * performance + 25 * functionality
                     + 15 * quality + 10 * reliability) \div 100
    IN IF weighted < 0 THEN 0 ELSE IF weighted > 100000 THEN 100000 ELSE weighted

\* C19: the overall_score of every emitted result, from validate as well as from
\* the orchestrator, equals the documented weighted score of that result.
C19_ScoreIsWeighted ==
    /\ ValidateEmitted => rv_result.overall_score = DocumentedScore(rv_result)
    /\ \A id \in Ids :
           OrchestratorEmitted(id) =>
               validation_result[id].overall_score = DocumentedScore(validation_result[id])

\* C15: once execute_code has returned after create_container succeeded, it has
\* issued remove_container for that container, also when start_container or the
\* exec failed.
C15_AlwaysAttemptsRemoval ==
    \A id \in Ids :
        execution_outcome[id] \in {"start_failed", "exec_failed", "exit_zero", "exit_nonzero"} =>
            remove_attempts[id] = 1

\* C16: cleanup_environment called twice on one environment returns success both
\* times; after the first call neither a container nor the workspace directory of
\* the environment exists, and the second call changes nothing.
C16_CleanupIdempotent ==
    [][cleanup_calls'[CmId] > cleanup_calls[CmId] =>
          /\ cm_last' = "Ok"
          /\ cleanup_calls[CmId] = 0 =>
                 /\ CmId \notin docker_containers'
                 /\ CmId \notin host_dirs'
          /\ cleanup_calls[CmId] >= 1 =>
                 /\ docker_containers' = docker_containers
                 /\ host_dirs' = host_dirs
                 /\ host_files' = host_files
      ]_vars

\* C17: when create_execution_environment failed on I/O it returned an error, and
\* the temporary directory it created no longer exists, nor any file it wrote.
C17_FailureRollsBack ==
    cm_pc = "failed" =>
        /\ cm_last = "Err"
        /\ CmId \notin host_dirs
        /\ host_files = {}
        /\ CmId \notin DOMAIN execution_env

\* create_execution_environment failed after it had written MaxFiles - 1 files.
C17_Witness ==
    /\ cm_pc = "failed"
    /\ cm_written = MaxFiles - 1
    /\ cm_written > 0
    /\ host_files = {}

\* s is a prefix of t.
IsPrefix(s, t) == Len(s) <= Len(t) /\ \A i \in 1..Len(s) : s[i] = t[i]

\* C18: the completed_phases list of a registered session only grows: a step
\* appends at most one phase and keeps every earlier entry in place, so each
\* earlier list is a prefix of every later one.
C18_CompletedPhasesGrow ==
    [][\A id \in (DOMAIN active_validations) \cap (DOMAIN active_validations') :
          /\ IsPrefix(active_validations[id].completed_phases,
                      active_validations'[id].completed_phases)
          /\ Len(active_validations'[id].completed_phases)
                 <= Len(active_validations[id].completed_phases) + 1
      ]_vars

\* A session that has walked the whole pipeline: eight phases are completed.
C18_Witness ==
    \E id \in DOMAIN active_validations :
        /\ active_validations[id].current_phase = "Completed"
        /\ Len(active_validations[id].completed_phases) = 8

\* C20: a fuzz_code call of an engine configured with iterations = 0 returns
\* total_executions = 0, crashes_found = 0 and coverage_percentage = 0, however
\* many campaigns the engine ran before.
C20_ZeroIterations ==
    (fz_pc = "idle" /\ fz_runs >= 1 /\ fz_config.iterations = 0) =>
        /\ fz_result.total_executions = 0
        /\ fz_result.crashes_found = 0
        /\ fz_result.coverage_percentage = 0

\* An engine with iterations = 0 and coverage tracking on returned from its
\* second campaign.
C20_Witness ==
    /\ fz_pc = "idle"
    /\ fz_config.iterations = 0
    /\ fz_config.coverage_guided
    /\ fz_runs = 2
    /\ fz_result.coverage_percentage = 0

\* C21: the execution of an empty codebase reports a non-zero exit code, and the
\* validation ends Completed with a finding that says no runnable code was detected.
C21_EmptyCodebase ==
    (codebase = << >> /\ dx_pc = "done") =>
        /\ dx_result.status = "Completed"
        /\ dx_execution.exit_code # 0
        /\ \E i \in 1..Len(dx_result.findings) :
               dx_result.findings[i].title \in
                   {"No runnable code detected", "no runnable code detected"}

\* The execution paths of a campaign, in order.
PathsOf(executions) == [i \in 1..Len(executions) |-> executions[i].execution_path]

\* The tracker of a validation of its own: a new CoverageTracker updated with
\* the paths of one campaign, in order.
RECURSIVE OwnCoverage(_)
OwnCoverage(paths) ==
    IF paths = << >> THEN << >>
    ELSE UpdateCoverage(OwnCoverage(SubSeq(paths, 1, Len(paths) - 1)), paths[Len(paths)])

\* The paths of a campaign that were new to it, in order.
RECURSIVE OwnInteresting(_)
OwnInteresting(paths) ==
    IF paths = << >> THEN << >>
    ELSE LET before == SubSeq(paths, 1, Len(paths) - 1)
         IN IF SeqContains(before, paths[Len(paths)])
            THEN OwnInteresting(before)
            ELSE Append(OwnInteresting(before), paths[Len(paths)])

\* C22: what a coverage-guided fuzz_code call reports as coverage_percentage,
\* coverage_info and interesting_inputs is what a tracker fed with the executions
\* of that call alone gives, whatever campaigns the shared engine ran before.
C22_CoveragePerValidation ==
    (fz_pc = "idle" /\ fz_runs >= 1 /\ fz_config.coverage_guided) =>
        /\ fz_result.coverage_percentage = GetCoveragePercentage(OwnCoverage(PathsOf(fz_executions)))
        /\ fz_result.coverage_info = GetCoverageInfo(OwnCoverage(PathsOf(fz_executions)))
        /\ fz_result.interesting_inputs = OwnInteresting(PathsOf(fz_executions))

\* The (crash kind, crash location) pairs of the crashes a campaign observed.
ObservedCrashKeys(executions) ==
    {<< executions[i].crash[1].crash_type, executions[i].crash[1].crash_location >> :
        i \in {j \in 1..Len(executions) : executions[j].crash # << >>}}

\* C23: in the FuzzingResult of a campaign no two entries of crashes share the
\* pair (crash kind, crash location), unique_crashes is the number of distinct pairs
\* among the crashes observed so far, and
\* unique_crashes <= crashes_found <= total_executions <= iterations.
C23_CrashesDeduplicated ==
    fz_pc \in {"loop", "idle"} =>
        /\ \A i, j \in 1..Len(fz_result.crashes) :
               (/\ fz_result.crashes[i].crash_type = fz_result.crashes[j].crash_type
                /\ fz_result.crashes[i].crash_location = fz_result.crashes[j].crash_location)
               => i = j
        /\ fz_result.unique_crashes = Cardinality(ObservedCrashKeys(fz_executions))
        /\ fz_result.unique_crashes = Len(fz_result.crashes)
        /\ fz_result.unique_crashes <= fz_result.crashes_found
        /\ fz_result.crashes_found <= fz_result.total_executions
        /\ fz_result.total_executions <= fz_config.iterations

\* A campaign returned after two executions crashed the same way: one report.
C23_Witness ==
    /\ fz_pc = "idle"
    /\ fz_runs >= 1
    /\ fz_result.crashes_found = 2
    /\ fz_result.unique_crashes = 1
    /\ Len(fz_result.crashes) = 1

\* The language a file counts for: Go, Rust (Cargo.toml included), Python,
\* JavaScript/TypeScript (package.json included), Java, or none.
LanguageOf(path) ==
    CASE path.ext = "go" -> "Go"
      [] path.ext = "rs" \/ path = Path("", "Cargo", "toml") -> "Rust"
      [] path.ext = "py" -> "Python"
      [] path.ext \in {"js", "ts"} \/ path = Path("", "package", "json") -> "JavaScript"
      [] path.ext = "java" -> "Java"
      [] OTHER -> "None"

\* The fixed priority: Go > Rust > Python > JavaScript/TypeScript > Java > shell.
LanguagePriority == << "Go", "Rust", "Python", "JavaScript", "Java" >>

\* The language of highest priority that has a file in the codebase.
PreferredLanguage(files) ==
    LET present == {k \in 1..Len(LanguagePriority) :
                       \E i \in 1..Len(files) : LanguageOf(files[i]) = LanguagePriority[k]}
    IN IF present = {} THEN "Shell"
       ELSE LanguagePriority[CHOOSE k \in present : \A l \in present : k <= l]

\* The language a command runs, by its program.
CommandLanguage(command) ==
    CASE command.words[1] = "go" -> "Go"
      [] command.words[1] \in {"cargo", "rustc"} -> "Rust"
      [] command.words[1] = "python3" -> "Python"
      [] command.words[1] \in {"npm", "node"} -> "JavaScript"
      [] command.words[1] = "javac" -> "Java"
      [] command.words[1] = "sh" -> "Shell"

\* The reorderings of a list of files.
Reorderings(files) ==
    {[i \in 1..Len(files) |-> files[f[i]]] : f \in Permutations(1..Len(files))}

\* C24: the command detected for a codebase runs the language of highest priority
\* (Go > Rust > Python > JavaScript/TypeScript > Java > shell fallback) that has a
\* file in it, and so does the command detected for every reordering of its files;
\* detecting twice gives the same command.
C24_LanguageByPriority ==
    dx_pc = "execute" =>
        /\ CommandLanguage(dx_command) = PreferredLanguage(codebase)
        /\ \A files \in Reorderings(codebase) :
               CommandLanguage(DetectExecutionCommand(files)) = PreferredLanguage(codebase)
        /\ dx_command = DetectExecutionCommand(codebase)

\* A codebase that starts with a Java file and a Python file and holds a Go file
\* after them was given the Go command.
C24_Witness ==
    /\ dx_pc = "execute"
    /\ Len(codebase) = 3
    /\ LanguageOf(codebase[1]) = "Java"
    /\ LanguageOf(codebase[2]) = "Python"
    /\ LanguageOf(codebase[3]) = "Go"
    /\ CommandLanguage(dx_command) = "Go"

\* path is the first file of the codebase, in its own order, among the wanted paths.
IsFirstFile(files, path, wanted) ==
    \E i \in 1..Len(files) :
        /\ files[i] = path
        /\ files[i] \in wanted
        /\ \A j \in 1..(i - 1) : files[j] \notin wanted

\* C25: within the chosen language the file the command runs is the first one, in
\* the codebase's file order, that the rule of the language selects: for Python
\* main.py or __main__.py if there is one, else the first .py file; for Rust
\* without Cargo.toml the first .rs file; for JavaScript without package.json the
\* first .js file; for Java the first .java file.
C25_FirstFileRuns ==
    LET IsMainPy == {Path("", "main", "py"), Path("", "__main__", "py")}
        IsPy == {p \in FilePaths : p.ext = "py"}
        IsRs == {p \in FilePaths : p.ext = "rs"}
        IsJs == {p \in FilePaths : p.ext = "js"}
        IsJava == {p \in FilePaths : p.ext = "java"}
        Has(p) == \E i \in 1..Len(codebase) : codebase[i] = p
        language == PreferredLanguage(codebase)
    IN dx_pc \in {"execute", "analyze", "done"} =>
        /\ language = "Python" =>
               IF \E i \in 1..Len(codebase) : codebase[i] \in IsMainPy
               THEN IsFirstFile(codebase, dx_command.file, IsMainPy)
               ELSE IsFirstFile(codebase, dx_command.file, IsPy)
        /\ (language = "Rust" /\ ~ Has(Path("", "Cargo", "toml"))) =>
               IsFirstFile(codebase, dx_command.file, IsRs)
        /\ (language = "JavaScript" /\ ~ Has(Path("", "package", "json"))) =>
               IsFirstFile(codebase, dx_command.file, IsJs)
        /\ language = "Java" => IsFirstFile(codebase, dx_command.file, IsJava)

\* The security score as documented, in thousandths: 100, less 25/15/8/3/1 per
\* violation, 30/20/10/5 per vulnerability and 20/12/6/2 times the confidence per
\* secret, clamped to [0, 100].
DocumentedSecurityScore(violations, vulnerabilities, secrets) ==
    LET ViolationPoints == [Critical |-> 25, High |-> 15, Medium |-> 8, Low |-> 3, Info |-> 1]
        VulnerabilityPoints == [Critical |-> 30, High |-> 20, Medium |-> 10, Low |-> 5]
        SecretPoints == [Critical |-> 20, High |-> 12, Medium |-> 6, Low |-> 2]
        Sum(f) == LET RECURSIVE Upto(_)
                      Upto(n) == IF n = 0 THEN 0 ELSE f[n] + Upto(n - 1)
                  IN Upto(Len(f))
        raw == 100000
               - Sum([i \in 1..Len(violations) |-> 1000 * ViolationPoints[violations[i].severity]])
               - Sum([i \in 1..Len(vulnerabilities) |->
                         1000 * VulnerabilityPoints[vulnerabilities[i].severity]])
               - Sum([i \in 1..Len(secrets) |->
                         10 * SecretPoints[secrets[i].severity] * secrets[i].confidence])
    IN IF raw < 0 THEN 0 ELSE IF raw > 100000 THEN 100000 ELSE raw

\* C26: the security score is 100 less 25/15/8/3/1 per violation, 30/20/10/5 per
\* vulnerability and (20/12/6/2 x confidence) per secret, clamped to [0, 100]; it
\* is never negative and never above 100.
C26_SecurityScore ==
    sc_pc \in {"risk", "done"} =>
        /\ sc_score = DocumentedSecurityScore(sc_violations, sc_vulnerabilities, sc_secrets)
        /\ sc_score \in 0..100000

\* Findings whose deductions exceed 100 points were scored 0.
C26_Witness ==
    /\ sc_pc = "risk"
    /\ Len(sc_vulnerabilities) = 3
    /\ Len(sc_secrets) = 1
    /\ \A i \in 1..3 : sc_vulnerabilities[i].severity = "Critical"
    /\ sc_secrets[1].severity = "Critical" /\ sc_secrets[1].confidence = 85
    /\ sc_score = 0

\* C27: the risk level is Critical if a violation is Critical or the score is
\* below 30, else High below 50, Medium below 70, Low below 90, Minimal otherwise;
\* a score of exactly 30, 50, 70 or 90 gets the less severe level.
C27_RiskLevel ==
    sc_pc = "done" =>
        sc_risk =
            IF (\E i \in 1..Len(sc_violations) : sc_violations[i].severity = "Critical")
               \/ sc_score < 30000
            THEN "Critical"
            ELSE IF sc_score < 50000 THEN "High"
            ELSE IF sc_score < 70000 THEN "Medium"
            ELSE IF sc_score < 90000 THEN "Low"
            ELSE "Minimal"

\* A score of exactly 30 without a Critical violation was rated High.
C27_Witness ==
    /\ sc_pc = "done"
    /\ sc_score = 30000
    /\ sc_violations = << >>
    /\ sc_risk = "High"

\* The recommendations the thresholds of a result call for.
DocumentedRecommendations(result) ==
    {r \in {Recommendation("Improve Security Posture", "Critical"),
            Recommendation("Optimize Performance", "Medium"),
            Recommendation("Reduce Memory Usage", "Medium")} :
        \/ r.title = "Improve Security Posture" /\ result.security_score < 70000
        \/ r.title = "Optimize Performance" /\ result.cpu_usage_percent > 80
        \/ r.title = "Reduce Memory Usage" /\ result.memory_usage_mb > 100}

\* The recommendations a result carries.
RecommendationsOf(result) ==
    {result.recommendations[i] : i \in 1..Len(result.recommendations)}

\* C28: the recommendations of every emitted result, from validate as well as
\* from the orchestrator, are exactly "Improve Security Posture" (Critical) if the
\* security score is below 70, "Optimize Performance" (Medium) if the CPU usage is
\* above 80 percent, and "Reduce Memory Usage" (Medium) if the memory is above 100 MB.
C28_RecommendationsByThreshold ==
    /\ ValidateEmitted => RecommendationsOf(rv_result) = DocumentedRecommendations(rv_result)
    /\ \A id \in Ids :
           OrchestratorEmitted(id) =>
               RecommendationsOf(validation_result[id])
                   = DocumentedRecommendations(validation_result[id])

\* The file a vulnerability names in affected_component ("file:line").
AffectedFile(vulnerability) ==
    CASE vulnerability.affected_component = "database.go:45" -> "database.go"
      [] OTHER -> vulnerability.affected_component

\* The catalogue patterns that report a type.
PatternsOf(catalogue, type) == {p \in DOMAIN catalogue : catalogue[p] = type}

\* C29: every vulnerability and every secret of a SecurityResult names a file of
\* the scanned codebase whose content matched a catalogue pattern of its type; a
\* codebase in which no file matches any pattern yields neither.
C29_FindingsOnMatchOnly ==
    sn_pc = "done" =>
        /\ \A i \in 1..Len(sn_vulnerabilities) :
               \E k \in 1..Len(sn_files) :
                   /\ sn_files[k].path = AffectedFile(sn_vulnerabilities[i])
                   /\ \E p \in PatternsOf(VulnerabilityDb, sn_vulnerabilities[i].vulnerability_type) :
                          IsMatch(p, sn_files[k].content)
        /\ \A i \in 1..Len(sn_secrets) :
               \E k \in 1..Len(sn_files) :
                   /\ sn_files[k].path = sn_secrets[i].file_path
                   /\ \E p \in PatternsOf(SecretPatterns, sn_secrets[i].secret_type) :
                          IsMatch(p, sn_files[k].content)
        /\ sn_matches = {} => (sn_vulnerabilities = << >> /\ sn_secrets = << >>)

SeriesNames == {"validation_times", "cpu_usage", "memory_usage", "error_rates"}

\* The last n elements of a sequence (all of it if it is shorter).
LastPoints(s, n) == IF Len(s) <= n THEN s ELSE SubSeq(s, Len(s) - n + 1, Len(s))

C31_WorkspaceMount ==
    \A e \in DOMAIN cc_requests :
        LET mounts == cc_requests[e].host_config.mounts
        IN /\ Len(mounts) = 1
           /\ mounts[1].target = "/workspace"
           /\ mounts[1].typ = "BIND"
           /\ mounts[1].read_only = container_config.readonly_filesystem

\* C32 as stated: expand_symbol is never entered deeper than the depth cap of 10.
C32_DepthWithinCap ==
    gr_pc = "expanding" => gr_call.depth <= DepthCap

\* C32: every generate_input returns, whatever productions are picked:
\* expand_symbol is never entered deeper than one level beyond the depth cap
\* (depth 11), its calls waiting are one per level, and a call entered beyond
\* the cap returns the default terminal "1" without expanding.
C32_GenerationTerminates ==
    /\ (gr_pc = "expanding") ~> (gr_pc = "returned")
    /\ [](gr_pc = "expanding" =>
             /\ gr_call.depth <= DepthCap + 1
             /\ Len(gr_stack) = gr_call.depth
             /\ \A i \in 1..Len(gr_stack) : gr_stack[i].depth = i - 1)
    /\ [](gr_capped \subseteq {"1"})

\* A generation has entered expand_symbol at depth 11, got the default terminal
\* from it and returned.
C32_Witness ==
    /\ gr_pc = "returned"
    /\ gr_capped = {"1"}

\* C33: the overall_progress of a registered session lies in [0, 1] (0 to 8
\* eighths) and no step lowers it; its completed_phases holds no phase twice and
\* at most 8 phases, and overall_progress is the length of that list over 8.
C33_ProgressMonotone ==
    /\ [](\A id \in DOMAIN active_validations :
             LET progress == active_validations[id]
             IN /\ progress.overall_progress \in 0..8
                /\ Len(progress.completed_phases) <= 8
                /\ progress.overall_progress = Len(progress.completed_phases)
                /\ \A i, j \in 1..Len(progress.completed_phases) :
                       progress.completed_phases[i] = progress.completed_phases[j] => i = j)
    /\ [][\A id \in (DOMAIN active_validations) \cap (DOMAIN active_validations') :
              active_validations'[id].overall_progress
                  >= active_validations[id].overall_progress
         ]_vars

\* A session past the repeated Initialization and EnvironmentSetup updates of
\* execute_pipeline: both phases are completed once and a later phase is current.
C33_Witness ==
    \E id \in DOMAIN active_validations :
        /\ active_validations[id].current_phase = "SecurityScanning"
        /\ active_validations[id].completed_phases = << "Initialization", "EnvironmentSetup" >>
        /\ active_validations[id].overall_progress = 2

CountsAgree(m) ==
    LET RECURSIVE Sum(_)
        Sum(n) == IF n = 0 THEN 0 ELSE m.score_histogram[n] + Sum(n - 1)
    IN /\ m.total_validations = m.successful_validations + m.failed_validations
       /\ Len(m.score_histogram) \in {0, 10}
       /\ Sum(Len(m.score_histogram)) = m.total_validations

\* C35: whatever the interleaving of the record_validation calls, every snapshot
\* of the validation metrics has total_validations = successful_validations +
\* failed_validations and histogram counts that sum to total_validations; so do
\* the metrics themselves whenever no record_validation holds the write guard.
C35_CountsAgree ==
    /\ CountsAgree(vm_snapshot)
    /\ rw_locks["validation_metrics"].writer = 0 => CountsAgree(validation_metrics)

\* A snapshot of one recorded validation, while a second record_validation has
\* counted itself and not yet its outcome, and a score of 100 is in the last bucket.
C35_Witness ==
    /\ vm_snapshot.total_validations = 1
    /\ vm_snapshot.score_histogram[10] = 1
    /\ validation_metrics.total_validations = 2
    /\ validation_metrics.successful_validations + validation_metrics.failed_validations = 1

\* No validation of the orchestrator is in flight: every run is yet to start or
\* its task has finished.
NoneInFlight == \A id \in Ids : pc[id] \in {"idle", "done"}

MonitoringFlag(violation_type) ==
    CASE violation_type = "UnauthorizedSyscall" -> mon_config.enable_syscall_monitoring
      [] violation_type = "NetworkAccess" -> mon_config.enable_network_monitoring
      [] violation_type = "FileSystemAccess" -> mon_config.enable_file_monitoring

\* C37: collect_results reports a violation of a class only when the monitoring
\* flag of that class is enabled; with the three flags false it reports none.
C37_ViolationsNeedFlag ==
    \A i \in 1..Len(mon_violations) : MonitoringFlag(mon_violations[i].violation_type)

\* C38: the source file a detected command names (python3 <file>, node <file>,
\* rustc <file>, javac <file>, go run main.go) is a path of the codebase, for
\* every codebase that is not empty.
C38_CommandFileInCodebase ==
    (dx_pc # "detect" /\ codebase # << >> /\ dx_command.file # NoPath) =>
        \E i \in 1..Len(codebase) : codebase[i] = dx_command.file

\* validate has returned Ok(result).
ValidateReturned == rv_pc = "done"

\* The step in which validate returns after a step of execute_validation other
\* than the last one, or after the timer won.
ReturnsEarly ==
    /\ rv_pc # "done"
    /\ rv_pc' = "done"
    /\ (rv_steps' = rv_steps \/ rv_pc # "cleanup")

\* C39: validate never returns an error: when a step of execute_validation fails
\* or the timer expires, validate still returns a result, whose status is Failed
\* or Timeout, and every returned result has completed_at and duration set and
\* a status of Completed, Failed or Timeout.
C39_ValidateReturnsResult ==
    /\ [](ValidateReturned =>
            /\ rv_result.status \in {"Completed", "Failed", "Timeout"}
            /\ rv_result.completed_at = "Some"
            /\ rv_result.duration = "Some")
    /\ [][ReturnsEarly => rv_result'.status \in {"Failed", "Timeout"}]_vars

\* validate returned a Failed result after the creation of the environment failed.
C39_Witness ==
    /\ ValidateReturned
    /\ rv_result.status = "Failed"
    /\ rv_result.completed_at = "Some"
    /\ rv_result.duration = "Some"
    /\ rv_steps = << "create_env" >>

====
